---- MODULE Spec2Model ----
(***************************************************************************)
(* Model of the deployment scripts of Sperax/USDs-v2 (src/scripts).        *)
(*                                                                         *)
(* Part I   the generic deploy / upgrade / step runner of                  *)
(*          scripts/deploy_and_upgrade.py (run_step, call_func,            *)
(*          resolve_args, deploy, upgrade, main) with confirm and          *)
(*          _getYorN of scripts/utils.py.                                  *)
(* Part II  the artifact-driven scripts scripts/deploy_vault.py and        *)
(*          scripts/testnet_deployment.py.                                 *)
(*                                                                         *)
(* The chain is the environment: every deployment, transaction and call    *)
(* either succeeds or raises (a revert), chosen nondeterministically.      *)
(* `sent` is the history of what the running invocation put on the chain.  *)
(***************************************************************************)
EXTENDS Integers, Sequences, FiniteSets, TLC

\* Bounds of the model: the nodes of a configuration's step forest; the
\* invocations of deploy / upgrade in one session of main, and the largest
\* forest with which a session makes more than one.
MaxNodes == 3
MaxRuns == 2
MaxRerunNodes == 2

None == "None"
Nodes == 1..MaxNodes

VARIABLES
    \* ---- Part I: deploy_and_upgrade.py
    pc,           \* position of the script
    runs,         \* invocations of deploy / upgrade that saved their artifact
    forest,       \* the hand-authored argument tree of the configuration's Steps
    steps,        \* the mutable fields of the Step objects: entry -> node -> contract
    op,           \* "deploy" or "upgrade": the function being executed
    config_name,  \* get_config's selection
    stack,        \* call stack of run_step / call_func / resolve_args
    stepIdx,      \* position of the for-loop over post_*_steps
    tx_list,      \* the local tx_list of deploy / upgrade
    proxy_admin,  \* the local proxy_admin of deploy
    admin,        \* the local admin of upgrade
    answer,       \* what the operator typed at 'Is admin same as deployer?' (history)
    data,         \* the variable data of main
    begun,        \* nodes on which run_step was entered, in order (history)
    saved,        \* the artifact written by save_deployment_artifacts, or None
    \* ---- both parts
    sent,         \* chain history of the running invocation
    confirmed,    \* the operator answered y to confirm() in this invocation
    error,        \* the exception that ended the script, or None
    \* ---- Part II: deploy_vault.py, testnet_deployment.py
    script,       \* which script runs
    vpc,          \* index of the next statement of main
    runNo,        \* 1: first run, 2: re-run on the written artifact
    deployments,  \* main's local deployments: key -> address
    loaded,       \* what json.load returned in this run (history)
    env,          \* main's local contract variables: name -> address
    flags,        \* main's local new_* booleans: name -> BOOLEAN
    helper,       \* history of the calls of deploy(deployments, contract, args, key)
    nextAddr,     \* source of fresh addresses of the chain
    file          \* the artifact file: its content, and whether this run wrote it

deployVars == <<pc, runs, forest, steps, op, config_name, stack, stepIdx, tx_list,
                proxy_admin, admin, answer, data, begun, saved>>
vaultVars == <<script, vpc, runNo, deployments, loaded, env, flags, helper, nextAddr,
               file>>
vars == <<deployVars, sent, confirmed, error, vaultVars>>

(***************************************************************************)
(* Part I.  Configuration: configurations.py                               *)
(***************************************************************************)

\* A configuration's post_*_steps with the Steps nested in their args, as a
\* forest over nodes 1..n: parent 0 is an entry of the list itself, parent p
\* a value of the args map of Step p (in map order: increasing node).  A node
\* is a Step without contract ("Step"), a Step constructed with contract and
\* contract_addr ("Own"), or a value that is no Step ("Lit").
Kinds == {"Step", "Own", "Lit"}

Size(f) == Len(f.parent)

RECURSIVE SortedSeq(_)
SortedSeq(S) ==
    IF S = {} THEN <<>>
    ELSE LET m == CHOOSE x \in S : \A y \in S : x <= y
         IN <<m>> \o SortedSeq(S \ {m})

\* step.args.values() of node p (p = 0: the post_*_steps list), in order.
Args(f, p) == SortedSeq({i \in 1..Size(f) : f.parent[i] = p})

\* The nodes the step runner reads when it is to run the nodes of todo in
\* order: a Step's arguments come before what follows the Step, and nothing
\* is read after the first node on which run_step raises.
RECURSIVE ReadNodes(_, _)
ReadNodes(f, todo) ==
    IF todo = <<>> THEN {}
    ELSE LET i == Head(todo)
         IN IF f.kind[i] = "Own" \/ (f.kind[i] = "Lit" /\ f.parent[i] = 0)
            THEN {i}
            ELSE IF f.kind[i] = "Lit"
            THEN {i} \cup ReadNodes(f, Tail(todo))
            ELSE {i} \cup ReadNodes(f, Args(f, i) \o Tail(todo))

\* The configurations of at most MaxNodes nodes.  A field that no run can
\* read has its default value, so that each behaviour is explored once.
Forests ==
    UNION { { f \in [parent : [1..n -> 0..n], kind : [1..n -> Kinds],
                     transact : [1..n -> BOOLEAN]] :
                /\ \A i \in 1..n :
                    /\ f.parent[i] < i
                    /\ f.parent[i] # 0 => f.kind[f.parent[i]] # "Lit"
                    /\ f.kind[i] # "Step" => ~f.transact[i]
                /\ \A i \in (1..n) \ ReadNodes(f, Args(f, 0)) :
                    f.kind[i] = "Step" /\ ~f.transact[i] }
            : n \in 0..MaxNodes }

\* deployment_config: entry name -> Deployment_data.  "bad" is an entry that
\* is not a Deployment_data.
deployment_config ==
    [ plain       |-> [typed |-> TRUE, upgradeable |-> FALSE, proxy_admin |-> None],
      proxied     |-> [typed |-> TRUE, upgradeable |-> TRUE, proxy_admin |-> "PROXY_ADMIN"],
      proxied_new |-> [typed |-> TRUE, upgradeable |-> TRUE, proxy_admin |-> None],
      bad         |-> [typed |-> FALSE, upgradeable |-> FALSE, proxy_admin |-> None] ]

\* upgrade_config: entry name -> Upgrade_data.
upgrade_config ==
    [ gnosis |-> [typed |-> TRUE, gnosis_upgrade |-> TRUE],
      direct |-> [typed |-> TRUE, gnosis_upgrade |-> FALSE],
      bad    |-> [typed |-> FALSE, gnosis_upgrade |-> TRUE] ]

Entries == DOMAIN deployment_config \cup DOMAIN upgrade_config

\* Step.__init__: contract defaults to None.
StepInit(f) ==
    [i \in 1..Size(f) |-> IF f.kind[i] = "Own" THEN "Own" ELSE None]

(***************************************************************************)
(* Operator input: utils.py                                                *)
(***************************************************************************)

Answers == {"y", "n", "Y", "N", "x"}

lower(a) == IF a = "Y" THEN "y" ELSE IF a = "N" THEN "n" ELSE a

\* _getYorN: the answer it returns, or "again" when it prompts again.
getYorN(a) == IF lower(a) \in {"y", "n"} THEN lower(a) ELSE "again"

\* A confirm that continues on n as well (a faulty variant, for comparison).
confirm_m(a) == IF getYorN(a) \in {"y", "n"} THEN "go" ELSE "again"

\* confirm: "go" when the script continues, "exit" on exit().
confirm(a) ==
    IF getYorN(a) = "y" THEN "go"
    ELSE IF getYorN(a) = "n" THEN "exit"
    ELSE "again"

(***************************************************************************)
(* Values, events and receipts                                             *)
(***************************************************************************)

\* Values passed to and returned by contract functions.
V(tag, n) == [tag |-> tag, n |-> n]
NoneVal == V("None", 0)
Lit(node) == V("lit", node)       \* the literal written in the configuration
Ret(node) == V("ret", node)       \* what func.call of Step node returned
Addr(name) == V(name, 0)          \* an address

\* One contract deployment, transaction or read-only call put to the chain.
Ev(kind, on, func, args, from, node, ok) ==
    [kind |-> kind, on |-> on, func |-> func, args |-> args, from |-> from,
     node |-> node, ok |-> ok]

\* get_tx_info(name, tx): tx is the position of the transaction in sent.
get_tx_info(name, tx) == [step |-> name, tx |-> tx]

\* No artifact file has been written.
NoArtifact ==
    [type |-> None, transactions |-> <<>>, config_name |-> None, proxy_addr |-> None,
     impl_addr |-> None, proxy_admin |-> None, contract_addr |-> None, new_impl |-> None]

\* An exception that is swallowed: the script goes on (a faulty variant, for
\* comparison).
Raise_m(next) == next

\* An exception propagates through deploy / upgrade and main: the script ends.

Raise(next) == "crashed"

Entry == IF op = "deploy" THEN deployment_config[config_name]
         ELSE upgrade_config[config_name]

\* Steps run on the implementation (a faulty variant, for comparison).
deployed_contract_m == "new_impl"

\* deployed_contract: the context contract of the post_*_steps.
deployed_contract ==
    IF op = "upgrade" THEN "PROXY_ADDRESS"
    ELSE IF Entry.upgradeable THEN "proxy" ELSE "contract"

deployment_params == <<Addr("param")>>

StepLabel == IF op = "deploy" THEN "Post_deployment_step" ELSE "Post_upgrade_transaction"

(***************************************************************************)
(* main, get_config, confirm                                               *)
(***************************************************************************)

ResetRun ==
    /\ stack' = <<>>
    /\ stepIdx' = 1
    /\ tx_list' = <<>>
    /\ proxy_admin' = None
    /\ admin' = None
    /\ answer' = None
    /\ sent' = <<>>
    /\ begun' = <<>>
    /\ confirmed' = FALSE
    /\ saved' = NoArtifact

\* The invocations the model follows in one session.
RunLimit == IF Size(forest) <= MaxRerunNodes THEN MaxRuns ELSE 1

\* main: choice == '1' or choice == '2'
MenuSelect(choice) ==
    /\ pc = "menu"
    /\ runs < RunLimit
    /\ op' = IF choice = "1" THEN "deploy" ELSE "upgrade"
    /\ pc' = "get_config"
    /\ ResetRun
    /\ UNCHANGED <<runs, forest, steps, config_name, data, error, vaultVars>>

\* main: choice == '3'
MenuExit ==
    /\ pc = "menu"
    /\ pc' = "exited"
    /\ UNCHANGED <<runs, forest, steps, op, config_name, stack, stepIdx, tx_list,
                   proxy_admin, admin, answer, data, sent, begun, confirmed, saved, error,
                   vaultVars>>

\* main: any other choice
MenuInvalid ==
    /\ pc = "menu"
    /\ UNCHANGED vars

\* A type check that lets every entry through (a faulty variant, for
\* comparison).
TypeOk_m(e) == TRUE

\* type(config_data) is Deployment_data (respectively Upgrade_data)
TypeOk(e) == e.typed

\* get_config and the type check that follows it in deploy / upgrade.
GetConfig(name) ==
    /\ pc = "get_config"
    /\ name \in (IF op = "deploy" THEN DOMAIN deployment_config ELSE DOMAIN upgrade_config)
    /\ LET e == IF op = "deploy" THEN deployment_config[name] ELSE upgrade_config[name]
       IN IF TypeOk(e)
          THEN /\ pc' = "confirm"
               /\ data' = data
          ELSE /\ pc' = "menu"             \* 'Incorrect configuration data'; return
               /\ data' = None
    /\ config_name' = name
    /\ UNCHANGED <<runs, forest, steps, op, stack, stepIdx, tx_list, proxy_admin, admin, answer,
                   sent, begun, confirmed, saved, error, vaultVars>>

FirstStage ==
    IF op = "upgrade" THEN "upgrade_impl"
    ELSE IF Entry.upgradeable THEN "deploy_impl" ELSE "deploy_contract"

\* confirm('Are the above configurations correct?'): exit() raises SystemExit.
\* confirmed records what the operator typed, not what confirm made of it.
Confirm(a) ==
    /\ pc = "confirm"
    /\ LET r == confirm(a)
       IN /\ pc' = IF r = "go" THEN FirstStage ELSE IF r = "exit" THEN "exited" ELSE pc
          /\ error' = IF r = "exit" THEN "SystemExit" ELSE error
    /\ confirmed' = (confirmed \/ lower(a) = "y")
    /\ UNCHANGED <<runs, forest, steps, op, config_name, stack, stepIdx, tx_list,
                   proxy_admin, admin, answer, data, sent, begun, saved, vaultVars>>

(***************************************************************************)
(* deploy and upgrade: the deployments that precede the steps              *)
(***************************************************************************)

\* A deployment or transaction of deploy / upgrade itself: on success its
\* receipt is appended to tx_list and the script goes on at next; a revert
\* raises.
Send(ev, label, next) ==
    /\ sent' = Append(sent, ev)
    /\ IF ev.ok
       THEN /\ tx_list' = Append(tx_list, get_tx_info(label, Len(sent) + 1))
            /\ pc' = next
            /\ error' = error
       ELSE /\ tx_list' = tx_list
            /\ pc' = Raise(next)
            /\ error' = "revert"

\* A deploy that never deploys a proxy admin (a faulty variant, for
\* comparison).
AfterImpl_m == "deploy_proxy"

\* proxy_admin = config.proxy_admin; if(proxy_admin is None): ...
AfterImpl == IF Entry.proxy_admin = None THEN "deploy_pa" ELSE "deploy_proxy"

\* impl = contract.deploy({'from': deployer})
DeployImpl(ok) ==
    /\ pc = "deploy_impl"
    /\ Send(Ev("deploy", "impl", "constructor", <<>>, "deployer", 0, ok),
            "Implementation_deployment", AfterImpl)
    /\ proxy_admin' = IF ok THEN Entry.proxy_admin ELSE proxy_admin
    /\ UNCHANGED <<runs, forest, steps, op, config_name, stack, stepIdx, admin, answer, data,
                   begun, confirmed, saved, vaultVars>>

\* pa_deployment = ProxyAdmin.deploy({'from': deployer})
DeployProxyAdmin(ok) ==
    /\ pc = "deploy_pa"
    /\ Send(Ev("deploy", "pa_deployment", "constructor", <<>>, "deployer", 0, ok),
            "Proxy_admin_deployment", "deploy_proxy")
    /\ proxy_admin' = IF ok THEN "pa_deployment" ELSE proxy_admin
    /\ UNCHANGED <<runs, forest, steps, op, config_name, stack, stepIdx, admin, answer, data,
                   begun, confirmed, saved, vaultVars>>

\* proxy = TransparentUpgradeableProxy.deploy(impl.address, proxy_admin, 0x, ...)
DeployProxy(ok) ==
    /\ pc = "deploy_proxy"
    /\ Send(Ev("deploy", "proxy", "constructor",
               <<Addr("impl"), Addr(proxy_admin), Addr("0x")>>, "deployer", 0, ok),
            "Proxy_deployment", "initialize")
    /\ UNCHANGED <<runs, forest, steps, op, config_name, stack, stepIdx, proxy_admin,
                   admin, answer, data, begun, confirmed, saved, vaultVars>>

\* init = deployed_contract.initialize(*config.deployment_params.values(), ...)
Initialize(ok) ==
    /\ pc = "initialize"
    /\ Send(Ev("transact", "proxy", "initialize", deployment_params, "deployer", 0, ok),
            "Proxy_initialization", "post_steps")
    /\ UNCHANGED <<runs, forest, steps, op, config_name, stack, stepIdx, proxy_admin,
                   admin, answer, data, begun, confirmed, saved, vaultVars>>

\* deployed_contract = contract.deploy(*config.deployment_params.values(), ...)
DeployContract(ok) ==
    /\ pc = "deploy_contract"
    /\ Send(Ev("deploy", "contract", "constructor", deployment_params, "deployer", 0, ok),
            "Deployment_transaction", "post_steps")
    /\ UNCHANGED <<runs, forest, steps, op, config_name, stack, stepIdx, proxy_admin,
                   admin, answer, data, begun, confirmed, saved, vaultVars>>

\* An upgrade that ignores gnosis_upgrade (a faulty variant, for comparison).
AfterNewImpl_m == "upgrade_admin"

\* if(not config.gnosis_upgrade): ... else: 'Please switch to Gnosis'
AfterNewImpl == IF ~Entry.gnosis_upgrade THEN "upgrade_admin" ELSE "save"

\* new_impl = contract.deploy({'from': deployer})
UpgradeImpl(ok) ==
    /\ pc = "upgrade_impl"
    /\ Send(Ev("deploy", "new_impl", "constructor", <<>>, "deployer", 0, ok),
            "New_implementation_deployment", AfterNewImpl)
    /\ UNCHANGED <<runs, forest, steps, op, config_name, stack, stepIdx, proxy_admin,
                   admin, answer, data, begun, confirmed, saved, vaultVars>>

\* An upgrade always sent from the deployer (a faulty variant, for
\* comparison).
AdminOf_m(flag) == "deployer"

\* admin = deployer; if(flag == 'n'): admin = get_user('Admin account: ')
AdminOf(flag) == IF flag = "n" THEN "admin_account" ELSE "deployer"

\* flag = _getYorN('Is admin same as deployer?'); get_user('Admin account: ')
AdminPrompt(a) ==
    /\ pc = "upgrade_admin"
    /\ LET flag == getYorN(a)
       IN /\ pc' = IF flag = "again" THEN pc ELSE "upgrade_tx"
          /\ admin' = IF flag = "again" THEN admin ELSE AdminOf(flag)
          /\ answer' = IF flag = "again" THEN answer ELSE a
    /\ UNCHANGED <<runs, forest, steps, op, config_name, stack, stepIdx, tx_list,
                   proxy_admin, data, sent, begun, confirmed, saved, error, vaultVars>>

\* upgrade_tx = proxy_admin.upgrade(config.proxy_address, new_impl.address, ...)
UpgradeTx(ok) ==
    /\ pc = "upgrade_tx"
    /\ Send(Ev("transact", "PROXY_ADMIN", "upgrade",
               <<Addr("PROXY_ADDRESS"), Addr("new_impl")>>, admin, 0, ok),
            "Upgrade_transaction", "post_steps")
    /\ UNCHANGED <<runs, forest, steps, op, config_name, stack, stepIdx, proxy_admin,
                   admin, answer, data, begun, confirmed, saved, vaultVars>>

(***************************************************************************)
(* run_step, call_func, resolve_args                                       *)
(***************************************************************************)

Top == stack[Len(stack)]

ReplaceTop(fr) == [stack EXCEPT ![Len(stack)] = fr]

\* The list walked backwards (a faulty variant, for comparison).
TopStep_m(i) == Args(forest, 0)[Len(Args(forest, 0)) + 1 - i]

\* for step in config.post_*_steps: the step of iteration i.
TopStep(i) == Args(forest, 0)[i]

\* A run_step that leaves the Step's fields alone (a faulty variant, for
\* comparison).
StepContract_m(contract_obj) == None

\* step.contract = contract_obj._name; step.contract_addr = contract_obj.address
StepContract(contract_obj) == contract_obj

\* run_step(step, contract_obj, deployer) up to its call of call_func.
run_step(node, contract_obj) ==
    /\ begun' = Append(begun, node)
    /\ IF forest.kind[node] = "Lit"
       THEN \* 'Invalid argument type skipping', then return step, val, tx
            \* reads val and tx, which were never assigned
            /\ pc' = "crashed"
            /\ error' = "UnboundLocalError"
            /\ UNCHANGED <<steps, stack>>
       ELSE IF steps[config_name][node] # None
       THEN \* step.contract_address: a Step has contract_addr, no contract_address
            /\ pc' = "crashed"
            /\ error' = "AttributeError"
            /\ UNCHANGED <<steps, stack>>
       ELSE /\ steps' = [steps EXCEPT ![config_name][node] = StepContract(contract_obj)]
            /\ stack' = Append(stack, [node |-> node, k |-> 1, res |-> <<>>,
                                       on |-> contract_obj])
            /\ UNCHANGED <<pc, error>>

\* The for-loop of deploy / upgrade calls run_step on its next step.
RunTopStep ==
    /\ pc = "post_steps"
    /\ stack = <<>>
    /\ stepIdx <= Len(Args(forest, 0))
    /\ run_step(TopStep(stepIdx), deployed_contract)
    /\ UNCHANGED <<runs, forest, op, config_name, stepIdx, tx_list, proxy_admin, admin, answer,
                   data, sent, confirmed, saved, vaultVars>>

\* The Step itself passed on in place of its value (a faulty variant, for
\* comparison).
ResolvedArg_m(arg, val) == V("step", arg)

\* resolve_args: res.append(val) for a Step argument, val being what its
\* run_step returned.
ResolvedArg(arg, val) == val

\* resolve_args, one iteration on an argument that is no Step: res.append(arg)
ResolveLiteral ==
    /\ pc = "post_steps"
    /\ stack # <<>>
    /\ Top.k <= Len(Args(forest, Top.node))
    /\ LET arg == Args(forest, Top.node)[Top.k]
       IN /\ forest.kind[arg] = "Lit"
          /\ stack' = ReplaceTop([Top EXCEPT !.res = Append(@, Lit(arg)), !.k = @ + 1])
    /\ UNCHANGED <<pc, runs, forest, steps, op, config_name, stepIdx, tx_list,
                   proxy_admin, admin, answer, data, sent, begun, confirmed, saved, error,
                   vaultVars>>

\* resolve_args, one iteration on a Step argument: run_step(arg, contract_obj, caller)
ResolveStep ==
    /\ pc = "post_steps"
    /\ stack # <<>>
    /\ Top.k <= Len(Args(forest, Top.node))
    /\ LET arg == Args(forest, Top.node)[Top.k]
       IN /\ forest.kind[arg] # "Lit"
          /\ run_step(arg, Top.on)
    /\ UNCHANGED <<runs, forest, op, config_name, stepIdx, tx_list, proxy_admin, admin, answer,
                   data, sent, confirmed, saved, vaultVars>>

\* What deploy / upgrade do with the tx that run_step returned for a step of
\* their list: tx_list.append(get_tx_info(label, tx)) if tx is not None.
RecordStepTx(tx) ==
    IF tx # 0 THEN Append(tx_list, get_tx_info(StepLabel, tx)) ELSE tx_list

\* A call_func that transacts whatever transact is (a faulty variant, for
\* comparison).
CallKind_m(transact) == "transact"

\* if transact: tx = func.transact(*res, {'from': caller})
\* else: val = func.call(*res)
CallKind(transact) == IF transact THEN "transact" ELSE "call"

\* call_func's val: None for a transaction, what func.call returned otherwise.
CallVal(node, transact) == IF transact THEN NoneVal ELSE Ret(node)

\* call_func's tx: the transaction (its position in sent), or None (0).
CallTx(transact, pos) == IF transact THEN pos ELSE 0

\* call_func once resolve_args has returned: func.transact(*res, {'from': caller})
\* or func.call(*res), and the return through run_step to its caller.
CallFunc(ok) ==
    /\ pc = "post_steps"
    /\ stack # <<>>
    /\ Top.k > Len(Args(forest, Top.node))
    /\ LET node == Top.node
           transact == forest.transact[node]
           val == CallVal(node, transact)
           tx == CallTx(transact, Len(sent) + 1)
           rest == SubSeq(stack, 1, Len(stack) - 1)
       IN /\ sent' = Append(sent, Ev(CallKind(transact), Top.on, "step", Top.res,
                                     "deployer", node, ok))
          /\ IF ~ok
             THEN /\ pc' = Raise(pc)
                  /\ error' = "revert"
                  /\ UNCHANGED <<stack, stepIdx, tx_list>>
             ELSE /\ UNCHANGED <<pc, error>>
                  /\ IF rest = <<>>
                     THEN \* back in the for-loop of deploy / upgrade
                          /\ stack' = <<>>
                          /\ stepIdx' = stepIdx + 1
                          /\ tx_list' = RecordStepTx(tx)
                     ELSE \* back in resolve_args: arg, val, _ = run_step(...)
                          /\ stack' = [rest EXCEPT ![Len(rest)] =
                                         [@ EXCEPT !.res = Append(@, ResolvedArg(node, val)),
                                                   !.k = @ + 1]]
                          /\ UNCHANGED <<stepIdx, tx_list>>
    /\ UNCHANGED <<runs, forest, steps, op, config_name, proxy_admin, admin, answer, data,
                   begun, confirmed, saved, vaultVars>>

\* The for-loop is over.
StepsDone ==
    /\ pc = "post_steps"
    /\ stack = <<>>
    /\ stepIdx > Len(Args(forest, 0))
    /\ pc' = "save"
    /\ UNCHANGED <<runs, forest, steps, op, config_name, stack, stepIdx, tx_list,
                   proxy_admin, admin, answer, data, sent, begun, confirmed, saved, error,
                   vaultVars>>

\* deployment_data / upgrade_data as handed to save_deployment_artifacts.
Artifact ==
    IF op = "deploy"
    THEN [type |-> "Deployment", transactions |-> tx_list, config_name |-> config_name,
          proxy_addr |-> IF Entry.upgradeable THEN "proxy" ELSE None,
          impl_addr |-> IF Entry.upgradeable THEN "impl" ELSE None,
          proxy_admin |-> IF Entry.upgradeable THEN proxy_admin ELSE None,
          contract_addr |-> IF Entry.upgradeable THEN None ELSE "contract",
          new_impl |-> None]
    ELSE [type |-> "Upgrade", transactions |-> tx_list, config_name |-> config_name,
          proxy_addr |-> None, impl_addr |-> None, proxy_admin |-> None,
          contract_addr |-> None, new_impl |-> "new_impl"]

\* save_deployment_artifacts(...), and the return to main: deploy has no
\* return statement, upgrade returns upgrade_data.
Save ==
    /\ pc = "save"
    /\ saved' = Artifact
    /\ data' = IF op = "deploy" THEN None ELSE "upgrade_data"
    /\ pc' = "menu"
    /\ runs' = runs + 1
    /\ UNCHANGED <<forest, steps, op, config_name, stack, stepIdx, tx_list,
                   proxy_admin, admin, answer, sent, begun, confirmed, error, vaultVars>>

(***************************************************************************)
(* Part I: specification                                                   *)
(***************************************************************************)

\* deploy_vault.main and testnet_deployment.main are not running.
InitVault ==
    /\ script = None
    /\ vpc = 0
    /\ runNo = 0
    /\ deployments = <<>>
    /\ loaded = <<>>
    /\ env = <<>>
    /\ flags = <<>>
    /\ helper = <<>>
    /\ nextAddr = 0
    /\ file = [written |-> FALSE, content |-> <<>>]

Init ==
    /\ pc = "menu"
    /\ runs = 0
    /\ forest \in Forests
    /\ steps = [e \in Entries |-> StepInit(forest)]
    /\ op = None
    /\ config_name = None
    /\ stack = <<>>
    /\ stepIdx = 1
    /\ tx_list = <<>>
    /\ proxy_admin = None
    /\ admin = None
    /\ answer = None
    /\ data = None
    /\ sent = <<>>
    /\ begun = <<>>
    /\ confirmed = FALSE
    /\ saved = NoArtifact
    /\ error = None
    /\ InitVault

Next ==
    \/ \E choice \in {"1", "2"} : MenuSelect(choice)
    \/ MenuExit
    \/ MenuInvalid
    \/ \E name \in Entries : GetConfig(name)
    \/ \E a \in Answers : Confirm(a)
    \/ \E ok \in BOOLEAN : DeployImpl(ok)
    \/ \E ok \in BOOLEAN : DeployProxyAdmin(ok)
    \/ \E ok \in BOOLEAN : DeployProxy(ok)
    \/ \E ok \in BOOLEAN : Initialize(ok)
    \/ \E ok \in BOOLEAN : DeployContract(ok)
    \/ \E ok \in BOOLEAN : UpgradeImpl(ok)
    \/ \E a \in Answers : AdminPrompt(a)
    \/ \E ok \in BOOLEAN : UpgradeTx(ok)
    \/ RunTopStep
    \/ ResolveLiteral
    \/ ResolveStep
    \/ \E ok \in BOOLEAN : CallFunc(ok)
    \/ StepsDone
    \/ Save

Spec == Init /\ [][Next]_vars

(***************************************************************************)
(* Part I: properties                                                      *)
(***************************************************************************)

Range(q) == {q[i] : i \in 1..Len(q)}

\* Positions in sent of the invocations of the function of Step node.
CallsOf(node) == {i \in 1..Len(sent) : sent[i].func = "step" /\ sent[i].node = node}

\* What call_func returned as val for the invocation ev.
ReturnedVal(ev) == IF ev.kind = "transact" THEN NoneVal ELSE Ret(ev.node)

\* C1: whenever the function of a Step is invoked, its positional arguments
\* are the values of the Step's args map in map order, where every value that
\* is no Step is passed as written and every nested Step is replaced by the
\* val its own call returned; that nested Step was invoked before, on the
\* same contract and from the same caller.
C1_NestedStepsResolvedFirst ==
    \A i \in 1..Len(sent) :
        sent[i].func = "step" =>
            LET a == Args(forest, sent[i].node)
            IN /\ Len(sent[i].args) = Len(a)
               /\ \A k \in 1..Len(a) :
                    IF forest.kind[a[k]] = "Lit"
                    THEN sent[i].args[k] = Lit(a[k])
                    ELSE \E j \in 1..(i - 1) :
                            /\ j \in CallsOf(a[k])
                            /\ sent[j].ok
                            /\ sent[j].on = sent[i].on
                            /\ sent[j].from = sent[i].from
                            /\ sent[i].args[k] = ReturnedVal(sent[j])

\* A Step was invoked with a literal and, after it, the value returned by a
\* read-only nested Step among its arguments.
C1_Witness ==
    \E i \in 1..Len(sent) :
        /\ sent[i].func = "step"
        /\ sent[i].ok
        /\ \E k1, k2 \in 1..Len(sent[i].args) :
            /\ sent[i].args[k1].tag = "lit"
            /\ sent[i].args[k2].tag = "ret"
            /\ k1 < k2

\* The steps of the post_*_steps list (parent 0) on which run_step was entered.
TopBegun == SelectSeq(begun, LAMBDA n : forest.parent[n] = 0)

OkCall(node) == \E i \in CallsOf(node) : sent[i].ok

OkEvent(on, func) ==
    \E i \in 1..Len(sent) : sent[i].on = on /\ sent[i].func = func /\ sent[i].ok

\* The receipts of steps in a transaction list, as the nodes they belong to.
StepReceipts(txs) ==
    LET s == SelectSeq(txs, LAMBDA t : t.step = "Post_deployment_step")
    IN [i \in 1..Len(s) |-> sent[s[i].tx].node]

IsSubsequenceOfRoots(q) ==
    \A i, j \in 1..Len(q) :
        i < j => \E x, y \in 1..Len(Args(forest, 0)) :
                    /\ x < y
                    /\ Args(forest, 0)[x] = q[i]
                    /\ Args(forest, 0)[y] = q[j]

\* C2: deploy enters run_step on the entries of post_deployment_steps in list
\* order, each at most once; the first only after the contract was deployed
\* (upgradeable: after the proxy was deployed and initialize returned); each
\* further one only after the call of the one before it returned; and the
\* step receipts of the saved transaction list are in list order.
C2_StepsInListOrder ==
    op = "deploy" =>
        /\ Len(TopBegun) <= Len(Args(forest, 0))
        /\ \A i \in 1..Len(TopBegun) :
            /\ TopBegun[i] = Args(forest, 0)[i]
            /\ i > 1 => OkCall(TopBegun[i - 1])
        /\ begun # <<>> =>
            IF Entry.upgradeable
            THEN OkEvent("proxy", "constructor") /\ OkEvent("proxy", "initialize")
            ELSE OkEvent("contract", "constructor")
        /\ saved # NoArtifact => IsSubsequenceOfRoots(StepReceipts(saved.transactions))

\* A deployment was saved whose transaction list holds two step receipts.
C2_Witness ==
    /\ op = "deploy"
    /\ saved # NoArtifact
    /\ Len(StepReceipts(saved.transactions)) >= 2

\* C3: in deploy and upgrade nothing is put on the chain and no artifact is
\* written unless the operator answered y to the confirmation; after the
\* answer n the script has exited with nothing sent and nothing written.
C3_NothingBeforeConfirmation ==
    /\ (sent # <<>> \/ saved # NoArtifact) => confirmed
    /\ error = "SystemExit" => pc = "exited" /\ sent = <<>> /\ saved = NoArtifact

\* The operator answered n in a second invocation, after a first one had run.
C3_Witness == error = "SystemExit" /\ runs = 1 /\ ~confirmed

\* C9: a deployment, initialisation or step call that fails is the last thing
\* the invocation put on the chain, the script has ended with the exception,
\* and no artifact was written, although contracts may have been deployed.
C9_NoRecoveryAfterFailure ==
    \A i \in 1..Len(sent) :
        ~sent[i].ok => /\ i = Len(sent)
                       /\ pc = "crashed"
                       /\ error = "revert"
                       /\ saved = NoArtifact

\* A step call failed after the contract had been deployed and a step had run.
C9_Witness ==
    /\ pc = "crashed"
    /\ Len(sent) >= 3
    /\ ~sent[Len(sent)].ok
    /\ sent[Len(sent)].func = "step"
    /\ sent[1].kind = "deploy" /\ sent[1].ok

\* C8: every deployment and transaction the invocation sent has its receipt
\* in the transactions list of the artifact the invocation saved.
C8_EveryTransactionRecorded ==
    saved # NoArtifact =>
        \A i \in 1..Len(sent) :
            sent[i].kind \in {"deploy", "transact"} =>
                \E k \in 1..Len(saved.transactions) : saved.transactions[k].tx = i

\* The Steps of the tree of node r (r included, values that are no Step excluded).
RECURSIVE TreeSteps(_)
TreeSteps(r) ==
    IF forest.kind[r] = "Lit" THEN {}
    ELSE {r} \cup UNION {TreeSteps(c) : c \in Range(Args(forest, r))}

\* run_step on the list entry r is in progress.
Running(r) == pc = "post_steps" /\ stack # <<>> /\ stack[1].node = r

\* C10: once run_step on a Step of the list has ended, no call having
\* reverted, run_step was entered on every Step of its tree exactly once and
\* the function of every Step of the tree was invoked exactly once, a nested
\* Step before the Step it is an argument of and the nested Steps of one Step
\* in argument order.
C10_StepTreeRunOnce ==
    \A x \in 1..Len(TopBegun) :
        LET r == TopBegun[x]
        IN (forest.kind[r] # "Lit" /\ error # "revert" /\ ~Running(r)) =>
              \A n \in TreeSteps(r) :
                  /\ Cardinality({i \in 1..Len(begun) : begun[i] = n}) = 1
                  /\ Cardinality(CallsOf(n)) = 1
                  /\ \A c \in TreeSteps(r) :
                        (forest.parent[c] = n \/ (forest.parent[c] = forest.parent[n] /\ c < n))
                            => \A i \in CallsOf(c), j \in CallsOf(n) : i < j

\* C11: upgrade deploys nothing but one new implementation, first of all;
\* the only upgrade call it sends is, for a configuration whose
\* gnosis_upgrade is false, upgrade(config.proxy_address, new implementation)
\* on the proxy admin at config.proxy_admin, right after that deployment; and
\* every post-upgrade step is invoked on the contract at config.proxy_address.
C11_UpgradeKeepsProxy ==
    (op = "upgrade" /\ sent # <<>>) =>
        /\ sent[1].kind = "deploy" /\ sent[1].on = "new_impl"
        /\ \A i \in 2..Len(sent) :
              /\ sent[i].kind # "deploy"
              /\ sent[1].ok
              /\ ~Entry.gnosis_upgrade
              /\ IF i = 2
                 THEN /\ sent[i].kind = "transact"
                      /\ sent[i].func = "upgrade"
                      /\ sent[i].on = "PROXY_ADMIN"
                      /\ sent[i].args = <<Addr("PROXY_ADDRESS"), Addr("new_impl")>>
                 ELSE /\ sent[i].func = "step"
                      /\ sent[i].on = "PROXY_ADDRESS"
                      /\ sent[2].ok

\* An upgrade has been saved after the upgrade call and a post-upgrade step.
C11_Witness ==
    /\ op = "upgrade"
    /\ saved # NoArtifact
    /\ Len(sent) >= 3
    /\ sent[3].func = "step" /\ sent[3].ok

\* C12: once deploy has saved its artifact and returned to main, main's
\* variable data holds the deployment data of that deployment.
C12_DeployReturnsData ==
    (op = "deploy" /\ pc = "menu" /\ saved # NoArtifact) => data = "deployment_data"

\* The positions in sent of the receipts tx_list holds for steps.
StepTxs == {tx_list[k].tx : k \in {x \in 1..Len(tx_list) : tx_list[x].step = StepLabel}}

\* C13: call_func puts exactly one thing on the chain: for transact true one
\* transaction from caller, whose receipt is the tx returned (the receipt
\* deploy / upgrade record for a step of their list) while the val returned
\* is None; for transact false one read-only call and no transaction, the tx
\* returned being None (nothing is recorded) and the val returned being what
\* the function returned.
C13_CallFuncTransactOrCall ==
    /\ \A n \in 1..Size(forest) : Cardinality(CallsOf(n)) <= 1
    /\ \A i \in 1..Len(sent) :
          sent[i].func = "step" =>
              LET n == sent[i].node
              IN /\ sent[i].kind = (IF forest.transact[n] THEN "transact" ELSE "call")
                 /\ sent[i].from = "deployer"
                 /\ (forest.parent[n] = 0 /\ sent[i].ok) =>
                        (i \in StepTxs <=> forest.transact[n])
                 /\ forest.parent[n] # 0 =>
                        \A j \in CallsOf(forest.parent[n]) :
                            \E k \in 1..Len(sent[j].args) :
                                /\ Args(forest, forest.parent[n])[k] = n
                                /\ sent[j].args[k] =
                                      (IF forest.transact[n] THEN NoneVal ELSE Ret(n))
    /\ \A t \in StepTxs : sent[t].func = "step" /\ sent[t].kind = "transact"

\* One invocation made a transaction and a read-only call through call_func,
\* the read-only call nested in another Step.
C13_Witness ==
    \E i, j \in 1..Len(sent) :
        /\ sent[i].func = "step" /\ sent[i].kind = "transact" /\ sent[i].ok
        /\ sent[j].func = "step" /\ sent[j].kind = "call" /\ sent[j].ok
        /\ forest.parent[sent[j].node] # 0
        /\ CallsOf(forest.parent[sent[j].node]) # {}

\* run_step is or was past its check of step.contract on node n: n is being
\* run or its function has been invoked.
PastContractCheck(n) ==
    CallsOf(n) # {} \/ \E d \in 1..Len(stack) : stack[d].node = n

\* C14: run_step on a Step whose contract is None invokes the Step's function
\* on the context contract it was given, and the Step it returns has its
\* contract and contract_addr set to that context contract.
C14_StepGetsContextContract ==
    /\ \A i \in 1..Len(sent) :
          sent[i].func = "step" => sent[i].on = deployed_contract
    /\ \A x \in 1..Len(begun) :
          PastContractCheck(begun[x]) =>
              steps[config_name][begun[x]] = deployed_contract

\* A Step nested in another has been invoked on the proxy deploy deployed and
\* carries the proxy as its contract.
C14_Witness ==
    \E i \in 1..Len(sent) :
        /\ sent[i].func = "step" /\ sent[i].ok
        /\ forest.parent[sent[i].node] # 0
        /\ sent[i].on = "proxy"
        /\ steps[config_name][sent[i].node] = "proxy"

\* The proxy admin an upgradeable deployment uses: the configured one, or the
\* one it deploys when none is configured.
UsedProxyAdmin ==
    IF Entry.proxy_admin = None THEN "pa_deployment" ELSE Entry.proxy_admin

\* What deploy sends for an upgradeable configuration before its steps, in
\* order (ok: whether the transaction succeeded, which the order leaves open).
UpgradeableSequence(ok) ==
    LET impl == <<Ev("deploy", "impl", "constructor", <<>>, "deployer", 0, ok)>>
        pa == IF Entry.proxy_admin = None
              THEN <<Ev("deploy", "pa_deployment", "constructor", <<>>, "deployer", 0, ok)>>
              ELSE <<>>
        rest == <<Ev("deploy", "proxy", "constructor",
                     <<Addr("impl"), Addr(UsedProxyAdmin), Addr("0x")>>,
                     "deployer", 0, ok),
                  Ev("transact", "proxy", "initialize", deployment_params,
                     "deployer", 0, ok)>>
    IN impl \o pa \o rest

\* C15: for an upgradeable configuration deploy sends, each only after the
\* one before it succeeded: the implementation deployment, without
\* constructor arguments; the proxy-admin deployment, only when
\* config.proxy_admin is None; the proxy deployment with (implementation,
\* that proxy admin, empty data); initialize on the proxy with the
\* deployment_params; and only then steps.  The proxy_admin of the saved
\* artifact is the one the proxy was deployed with.
C15_UpgradeableDeployOrder ==
    (op = "deploy" /\ sent # <<>> /\ Entry.upgradeable) =>
        /\ \A i \in 1..Len(sent) :
              /\ i > 1 => sent[i - 1].ok
              /\ IF i <= Len(UpgradeableSequence(TRUE))
                 THEN sent[i] = UpgradeableSequence(sent[i].ok)[i]
                 ELSE sent[i].func = "step"
        /\ saved # NoArtifact =>
              /\ Len(sent) >= Len(UpgradeableSequence(TRUE))
              /\ saved.proxy_admin = UsedProxyAdmin

\* A deployment that had to deploy its proxy admin has been saved.
C15_Witness ==
    /\ op = "deploy"
    /\ saved # NoArtifact
    /\ saved.proxy_admin = "pa_deployment"
    /\ Len(sent) >= 4
    /\ sent[3].args = <<Addr("impl"), Addr("pa_deployment"), Addr("0x")>>

\* C16: with gnosis_upgrade true, upgrade sends the deployment of the new
\* implementation and nothing else: no upgrade transaction and no step; once
\* that deployment has succeeded it goes straight to saving, and the artifact
\* saved has the new implementation as new_impl and that deployment as its
\* only transaction.
C16_GnosisUpgradeOnlyDeploys ==
    (op = "upgrade" /\ sent # <<>> /\ Entry.gnosis_upgrade) =>
        /\ Len(sent) = 1
        /\ sent[1].kind = "deploy" /\ sent[1].on = "new_impl"
        /\ begun = <<>>
        /\ sent[1].ok =>
              \/ pc = "save" /\ saved = NoArtifact
              \/ pc \in {"menu", "exited"} /\ saved # NoArtifact
        /\ saved # NoArtifact =>
              /\ saved.type = "Upgrade"
              /\ saved.new_impl = "new_impl"
              /\ saved.transactions =
                    <<get_tx_info("New_implementation_deployment", 1)>>

\* A gnosis upgrade of a configuration that has post-upgrade steps was saved.
C16_Witness ==
    /\ op = "upgrade"
    /\ config_name = "gnosis"
    /\ saved # NoArtifact
    /\ Args(forest, 0) # <<>>

\* C17: with gnosis_upgrade false, every post-upgrade step is invoked after
\* the proxy admin's upgrade transaction has succeeded; that transaction is
\* sent from the admin account the operator chose if they answered n (in
\* either case) to 'Is admin same as deployer?' and from the deployer
\* otherwise; the steps are sent from the deployer, those of the list in list
\* order.
C17_UpgradeBeforeSteps ==
    (op = "upgrade" /\ sent # <<>> /\ ~Entry.gnosis_upgrade) =>
        \A i \in 1..Len(sent) :
            /\ sent[i].func = "upgrade" =>
                  sent[i].from = (IF lower(answer) = "n" THEN "admin_account"
                                  ELSE "deployer")
            /\ sent[i].func = "step" =>
                  /\ sent[i].from = "deployer"
                  /\ \E j \in 1..(i - 1) :
                        /\ sent[j].func = "upgrade"
                        /\ sent[j].kind = "transact"
                        /\ sent[j].ok
                  /\ \A j \in 1..(i - 1) :
                        (/\ sent[j].func = "step"
                         /\ forest.parent[sent[j].node] = 0
                         /\ forest.parent[sent[i].node] = 0)
                            => \E a, b \in 1..Len(Args(forest, 0)) :
                                  /\ a < b
                                  /\ Args(forest, 0)[a] = sent[j].node
                                  /\ Args(forest, 0)[b] = sent[i].node

\* The operator answered N, the upgrade went out from the admin account and
\* two steps of the list followed.
C17_Witness ==
    /\ op = "upgrade"
    /\ answer = "N"
    /\ \E u, i, j \in 1..Len(sent) :
          /\ sent[u].func = "upgrade" /\ sent[u].from = "admin_account"
          /\ u < i /\ i < j
          /\ sent[i].func = "step" /\ forest.parent[sent[i].node] = 0
          /\ sent[j].func = "step" /\ forest.parent[sent[j].node] = 0

\* C18: when the entry selected is no Deployment_data (for upgrade: no
\* Upgrade_data), deploy / upgrade returns None to main at once: the operator
\* is not asked to confirm, nothing is deployed or sent, no step is run and no
\* artifact is written.
C18_WrongTypeReturnsAtOnce ==
    config_name = "bad" =>
        /\ pc \in {"menu", "get_config", "exited"}
        /\ ~confirmed
        /\ sent = <<>>
        /\ begun = <<>>
        /\ tx_list = <<>>
        /\ saved = NoArtifact
        /\ data = None

\* upgrade was given an entry that is no Upgrade_data, after an invocation
\* that had saved its artifact, and is back at the menu.
C18_Witness ==
    /\ config_name = "bad"
    /\ op = "upgrade"
    /\ pc = "menu"
    /\ runs = 1

\* C19: run_step on an entry of the list that is no Step makes no contract
\* call and returns normally: no exception is raised on it.
C19_NonStepSkipped ==
    \A x \in 1..Len(begun) :
        forest.kind[begun[x]] = "Lit" =>
            /\ CallsOf(begun[x]) = {}
            /\ error # "UnboundLocalError"

\* C20: run_step on a Step constructed with its own contract and
\* contract_addr leaves these fields as they are and goes on to invoke the
\* Step's function on that contract: the Step is being run on it or has been
\* invoked on it.
C20_OwnContractStepInvoked ==
    \A x \in 1..Len(begun) :
        forest.kind[begun[x]] = "Own" =>
            /\ steps[config_name][begun[x]] = "Own"
            /\ \/ \E d \in 1..Len(stack) :
                     stack[d].node = begun[x] /\ stack[d].on = "Own"
               \/ \E i \in CallsOf(begun[x]) : sent[i].on = "Own"

\* C21: in every run of deploy of one session, the first for an entry or a
\* later one, run_step on a Step constructed without contract gets to running
\* the Step, and invokes it on the contract this run deployed.
C21_RerunRunsStepsAgain ==
    op = "deploy" =>
        \A x \in 1..Len(begun) :
            forest.kind[begun[x]] = "Step" =>
                /\ PastContractCheck(begun[x])
                /\ \A i \in CallsOf(begun[x]) : sent[i].on = deployed_contract

(***************************************************************************)
(* Part II.  deploy_vault.py and testnet_deployment.py                     *)
(*                                                                         *)
(* main() of either script is a straight sequence of statements over the   *)
(* loaded artifact.  The statements are kept as data, one record for each  *)
(* statement of main that deploys, calls, looks an address up or writes,   *)
(* and are executed by the actions below.  Addresses are compared as       *)
(* addresses, not as the strings of the JSON file.                         *)
(***************************************************************************)

\* Largest number of keys in which the artifact on disk differs from the
\* complete artifact or from the empty one.
MaxDiff == 1

\* An operand of a statement: a local variable of main, deployments[key], or
\* a literal of the script.
L(name) == [src |-> "local", name |-> name]
Dp(key) == [src |-> "deployments", name |-> key]
K(c) == [src |-> "const", name |-> c]

Stmt(o, line, var, flag, contract, key, target, func, args, all, any, none) ==
    [op |-> o, line |-> line, var |-> var, flag |-> flag, contract |-> contract,
     key |-> key, target |-> target, func |-> func, args |-> args,
     all |-> all, any |-> any, none |-> none]

\* var, flag = deploy(deployments, contract, [args..., {'from': owner}], key)
D(line, var, flag, contract, args, key) ==
    Stmt("deploy", line, var, flag, contract, key, None, None, args, {}, {}, {})

\* var = Contract.from_abi(name, ref, abi)
F(line, var, ref) ==
    Stmt("from_abi", line, var, None, None, None, None, None, <<ref>>, {}, {}, {})

\* if <condition>: target.func(args..., {'from': owner}); the condition is
\* (every flag of all) and (some flag of any, if any is not empty) and
\* (no flag of none).
C(line, all, any, none, target, func, args) ==
    Stmt("call", line, None, None, None, None, target, func, args, all, any, none)

\* An expression that subscripts deployments without calling anything.
R(line, refs) ==
    Stmt("read", line, None, None, None, None, None, None, refs, {}, {}, {})

\* data = {**data, ...}; deployments = {**deployments, **data}; json.dump
W(line) ==
    Stmt("write", line, None, None, None, None, None, None, <<>>, {}, {}, {})

\* A setter that is called for a new plugin only (a faulty variant, for
\* comparison).
Setter_m(line, flag, func, plugin) ==
    C(line, {flag}, {}, {}, "vault", func, <<L(plugin)>>)

\* vault.update*(plugin) of both scripts: if(new_plugin or new_vault)
Setter(line, flag, func, plugin) ==
    C(line, {}, {flag, "new_vault"}, {}, "vault", func, <<L(plugin)>>)

\* deploy_vault.main, lines 72-265.
deploy_vault ==
    << D(72, "proxy_admin", "_", "ProxyAdmin", <<>>, "proxy_admin"),
       F(73, "usds", Dp("usds")),
       D(77, "vault_impl", "_", "VaultCore", <<>>, "vault_impl"),
       D(79, "vault_proxy", "new_vault", "TUP",
         <<L("vault_impl"), L("proxy_admin"), K("0x")>>, "vault"),
       F(85, "vault", L("vault_proxy")),
       C(87, {"new_vault"}, {}, {}, "vault", "initialize", <<>>),
       D(91, "master_price_oracle", "new_master_oracle", "MasterPriceOracle", <<>>,
         "master_price_oracle"),
       D(97, "collateral_manager", "new_collateral_manager", "CollateralManager",
         <<L("vault")>>, "collateral_manager"),
       D(100, "fee_calculator", "new_fee_calculator", "FeeCalculator",
         <<L("collateral_manager")>>, "fee_calculator"),
       D(103, "dripper", "new_dripper", "Dripper", <<L("vault"), K("7 * 86400")>>,
         "dripper"),
       D(107, "rebase_manager", "new_rebase_manager", "RebaseManager",
         <<L("vault"), L("dripper"), K("86400"), K("1000"), K("300")>>,
         "rebase_manager"),
       C(114, {"new_dripper"}, {}, {"new_rebase_manager"}, "rebase_manager",
         "updateDripper", <<L("dripper")>>),
       D(116, "spa_buyback_impl", "new_spa_buyback_impl", "SPABuyback", <<>>,
         "spa_buyback_impl"),
       D(119, "spa_buyback_proxy", "new_spa_buyback", "TUP",
         <<L("spa_buyback_impl"), L("proxy_admin"), K("0x")>>, "spa_buyback"),
       F(130, "spa_buyback", L("spa_buyback_proxy")),
       D(132, "yield_reserve", "new_yield_reserve", "YieldReserve",
         <<L("spa_buyback"), L("vault"), L("master_price_oracle"), L("dripper")>>,
         "yield_reserve"),
       C(140, {}, {}, {}, "yield_reserve", "toggleSrcTokenPermission",
         <<L("usds"), K("True")>>),
       C(141, {}, {}, {}, "yield_reserve", "toggleDstTokenPermission",
         <<Dp("USDC"), K("True")>>),
       C(142, {}, {}, {}, "yield_reserve", "toggleDstTokenPermission",
         <<Dp("USDCe"), K("True")>>),
       C(143, {}, {}, {}, "yield_reserve", "toggleDstTokenPermission",
         <<Dp("DAI"), K("True")>>),
       C(144, {}, {}, {}, "yield_reserve", "toggleDstTokenPermission",
         <<Dp("FRAX"), K("True")>>),
       C(145, {}, {}, {}, "yield_reserve", "toggleDstTokenPermission",
         <<Dp("LUSD"), K("True")>>),
       Setter(149, "new_collateral_manager", "updateCollateralManager",
              "collateral_manager"),
       Setter(152, "new_spa_buyback", "updateFeeVault", "spa_buyback"),
       Setter(155, "new_master_oracle", "updateOracle", "master_price_oracle"),
       Setter(158, "new_fee_calculator", "updateFeeCalculator", "fee_calculator"),
       Setter(161, "new_rebase_manager", "updateRebaseManager", "rebase_manager"),
       Setter(164, "new_yield_reserve", "updateYieldReceiver", "yield_reserve"),
       R(166, <<Dp("USDC"), Dp("USDCe"), Dp("DAI"), Dp("USDT"), Dp("FRAX"),
                Dp("LUSD")>>),
       C(226, {"new_collateral_manager"}, {}, {}, "collateral_manager",
         "addCollateral", <<Dp("USDC"), K("collateral_data[0]")>>),
       C(226, {"new_collateral_manager"}, {}, {}, "collateral_manager",
         "addCollateral", <<Dp("USDCe"), K("collateral_data[1]")>>),
       C(226, {"new_collateral_manager"}, {}, {}, "collateral_manager",
         "addCollateral", <<Dp("DAI"), K("collateral_data[2]")>>),
       C(226, {"new_collateral_manager"}, {}, {}, "collateral_manager",
         "addCollateral", <<Dp("USDT"), K("collateral_data[3]")>>),
       C(226, {"new_collateral_manager"}, {}, {}, "collateral_manager",
         "addCollateral", <<Dp("FRAX"), K("collateral_data[4]")>>),
       C(226, {"new_collateral_manager"}, {}, {}, "collateral_manager",
         "addCollateral", <<Dp("LUSD"), K("collateral_data[5]")>>),
       W(247) >>

\* The dict literal data of deploy_vault.main: key -> the local variable whose
\* address is stored.
deploy_vault_data ==
    [k \in {"proxy_admin", "usds", "master_price_oracle", "vault", "vault_impl",
            "fee_calculator", "collateral_manager", "dripper", "rebase_manager",
            "spa_buyback_impl", "spa_buyback", "yield_reserve"} |-> k]

\* for tkn in tokens.keys(): tkn_contract, _ = deploy(..., token.symbol);
\* data[token.symbol] = tkn_contract.address.  The local of the model that
\* holds data[symbol] is named symbol.
Token(symbol) == D(89, symbol, "_", "CustomERC20", <<K(symbol)>>, symbol)

\* The body of the loop over collateral_data of testnet_deployment.main.
AddCollateral(symbol) ==
    C(330, {"new_collateral_manager"}, {}, {}, "collateral_manager", "addCollateral",
      <<L(symbol), K("collateral_data")>>)

AddCollateralStrategy(symbol) ==
    C(343, {"new_collateral_manager"}, {}, {}, "collateral_manager",
      "addCollateralStrategy", <<L(symbol), L("strategy"), K("5000")>>)

\* master_price_oracle.updateTokenPriceFeed(data[symbol], chainlink_oracle, ...)
PriceFeed(line, symbol) ==
    C(line, {}, {}, {}, "master_price_oracle", "updateTokenPriceFeed",
      <<L(symbol), L("chainlink_oracle"), L(symbol)>>)

\* testnet_deployment.main, lines 86-367.
testnet_deployment ==
    << Token("USDC"), Token("DAI"), Token("USDT"), Token("ARB"), Token("SPA"),
       Token("FRAX"), Token("LUSD"),
       D(100, "usds_impl", "new_usds_impl", "USDs", <<>>, "usds_impl"),
       D(101, "proxy_admin", "_", "ProxyAdmin", <<>>, "proxy_admin"),
       D(102, "usds_proxy", "new_deployment", "TUP",
         <<L("usds_impl"), L("proxy_admin"), K("0x")>>, "usds"),
       F(108, "usds", L("usds_proxy")),
       D(112, "vault_impl", "_", "VaultCore", <<>>, "vault_impl"),
       D(114, "vault_proxy", "new_vault", "TUP",
         <<L("vault_impl"), L("proxy_admin"), K("0x")>>, "vault"),
       F(120, "vault", L("vault_proxy")),
       C(122, {"new_vault"}, {}, {}, "vault", "initialize", <<>>),
       C(125, {"new_deployment"}, {}, {}, "usds", "initialize",
         <<K("Sperax USD"), K("USDs"), L("vault")>>),
       C(127, {"new_usds_impl"}, {}, {"new_deployment"}, "proxy_admin", "upgrade",
         <<L("usds_proxy"), L("usds_impl")>>),
       D(152, "chainlink_oracle", "_", "ChainlinkOracle",
         <<L("USDC"), L("DAI"), L("USDT"), L("ARB")>>, "chainlink_oracle"),
       D(159, "master_price_oracle", "new_master_oracle", "MasterPriceOracle", <<>>,
         "master_price_oracle"),
       D(163, "dia_oracle", "_", "DIAOracle", <<L("SPA"), L("usds")>>, "dia_oracle"),
       PriceFeed(177, "USDC"), PriceFeed(184, "DAI"), PriceFeed(191, "USDT"),
       D(211, "collateral_manager", "new_collateral_manager", "CollateralManager",
         <<L("vault")>>, "collateral_manager"),
       D(214, "fee_calculator", "new_fee_calculator", "FeeCalculator",
         <<L("collateral_manager")>>, "fee_calculator"),
       D(217, "dripper", "new_dripper", "Dripper", <<L("vault"), K("7 * 86400")>>,
         "dripper"),
       D(221, "rebase_manager", "new_rebase_manager", "RebaseManager",
         <<L("vault"), L("dripper"), K("86400"), K("1000"), K("800")>>,
         "rebase_manager"),
       C(228, {"new_dripper"}, {}, {"new_rebase_manager"}, "rebase_manager",
         "updateDripper", <<L("dripper")>>),
       D(230, "spa_buyback_impl", "new_spa_buyback_impl", "SPABuyback", <<>>,
         "spa_buyback_impl"),
       D(233, "spa_buyback_proxy", "new_spa_buyback", "TUP",
         <<L("spa_buyback_impl"), L("proxy_admin"), K("0x")>>, "spa_buyback"),
       F(244, "spa_buyback", L("spa_buyback_proxy")),
       C(246, {"new_spa_buyback"}, {}, {}, "spa_buyback", "initialize",
         <<K("owner"), K("5000")>>),
       C(247, {"new_spa_buyback"}, {}, {}, "spa_buyback", "updateOracle",
         <<L("master_price_oracle")>>),
       C(250, {"new_spa_buyback_impl"}, {}, {"new_spa_buyback"}, "proxy_admin",
         "upgrade", <<L("spa_buyback"), L("spa_buyback_impl")>>),
       D(252, "yield_reserve", "new_yield_reserve", "YieldReserve",
         <<L("spa_buyback"), L("vault"), L("master_price_oracle"), L("dripper")>>,
         "yield_reserve"),
       Setter(262, "new_collateral_manager", "updateCollateralManager",
              "collateral_manager"),
       Setter(265, "new_spa_buyback", "updateFeeVault", "spa_buyback"),
       Setter(268, "new_master_oracle", "updateOracle", "master_price_oracle"),
       Setter(271, "new_fee_calculator", "updateFeeCalculator", "fee_calculator"),
       Setter(274, "new_rebase_manager", "updateRebaseManager", "rebase_manager"),
       Setter(277, "new_yield_reserve", "updateYieldReceiver", "yield_reserve"),
       C(279, {"new_vault"}, {}, {}, "usds", "updateVault", <<L("vault")>>),
       D(282, "strategy_impl", "_", "MockStrategy", <<>>, "strategy_impl"),
       D(284, "strategy_proxy", "new_strategy", "TUP",
         <<L("strategy_impl"), L("proxy_admin"), K("0x")>>, "mock_strategy"),
       F(290, "strategy", L("strategy_proxy")),
       C(292, {"new_strategy"}, {}, {}, "strategy", "initialize",
         <<L("vault"), L("USDC"), L("DAI"), L("USDT"), K("[1e3, 1e15, 1e3]"),
           L("ARB"), K("1e15")>>),
       AddCollateral("USDC"), AddCollateralStrategy("USDC"),
       AddCollateral("DAI"), AddCollateralStrategy("DAI"),
       AddCollateral("USDT"), AddCollateralStrategy("USDT"),
       W(345) >>

\* data of testnet_deployment.main when it is written: the entries of the
\* token loop (line 96) and the dict literal of lines 345-363.
testnet_deployment_data ==
    [k \in {"USDC", "DAI", "USDT", "ARB", "SPA", "FRAX", "LUSD", "proxy_admin",
            "usds", "usds_impl", "chainlink_oracle", "master_price_oracle",
            "dia_oracle", "vault", "vault_impl", "fee_calculator",
            "collateral_manager", "dripper", "rebase_manager", "spa_buyback_impl",
            "spa_buyback", "yield_reserve", "mock_strategy"}
        |-> IF k = "mock_strategy" THEN "strategy" ELSE k]

Scripts == {"deploy_vault", "testnet_deployment"}

Program(s) == IF s = "deploy_vault" THEN deploy_vault ELSE testnet_deployment

DataOf(s) == IF s = "deploy_vault" THEN deploy_vault_data ELSE testnet_deployment_data

\* The keys either script reads or writes, in a fixed order: the address
\* recorded under Keys[i] in the artifact on disk is i.
Keys ==
    << "USDC", "USDCe", "DAI", "USDT", "ARB", "SPA", "FRAX", "LUSD", "proxy_admin",
       "usds", "usds_impl", "chainlink_oracle", "master_price_oracle", "dia_oracle",
       "vault", "vault_impl", "fee_calculator", "collateral_manager", "dripper",
       "rebase_manager", "spa_buyback_impl", "spa_buyback", "yield_reserve",
       "strategy_impl", "mock_strategy" >>

KeySet == {Keys[i] : i \in 1..Len(Keys)}

Recorded(k) == CHOOSE i \in 1..Len(Keys) : Keys[i] = k

\* The sets of at most n keys.
RECURSIVE UpTo(_)
UpTo(n) ==
    IF n = 0 THEN {{}}
    ELSE UpTo(n - 1) \cup {s \cup {k} : s \in UpTo(n - 1), k \in KeySet}

\* The artifacts on disk main is started on.
Artifacts ==
    {[k \in S |-> Recorded(k)] :
        S \in UpTo(MaxDiff) \cup {KeySet \ s : s \in UpTo(MaxDiff)}}

(***************************************************************************)
(* Part II: the statements of main                                         *)
(***************************************************************************)

EmptyMap == [k \in {} |-> 0]

\* f with f[k] = v
Bind(f, k, v) == [x \in DOMAIN f \cup {k} |-> IF x = k THEN v ELSE f[x]]

\* A helper that deploys whatever the artifact holds (a faulty variant, for
\* comparison).
deploy_m(deps, key) == [tx |-> TRUE, at |-> 0, flag |-> TRUE]

\* deploy(deployments, contract, args, key): whether a deployment transaction
\* is made, the recorded address taken otherwise (0: none), and the flag
\* returned.
deploy(deps, key) ==
    IF key \in DOMAIN deps
    THEN [tx |-> FALSE, at |-> deps[key], flag |-> FALSE]
    ELSE [tx |-> TRUE, at |-> 0, flag |-> TRUE]

\* main is at a statement.
AtStmt == script # None /\ error = None /\ vpc \in 1..Len(Program(script))

Cur == Program(script)[vpc]

\* The value of an operand.
Eval(ref) ==
    IF ref.src = "local" THEN V("addr", env[ref.name])
    ELSE IF ref.src = "deployments" THEN V("addr", deployments[ref.name])
    ELSE V(ref.name, 0)

EvalAll(refs) == [i \in 1..Len(refs) |-> Eval(refs[i])]

\* Some operand subscripts deployments with a key it does not hold.
KeyError(refs) ==
    \E i \in 1..Len(refs) :
        refs[i].src = "deployments" /\ refs[i].name \notin DOMAIN deployments

\* The condition under which a call statement is executed.
Cond(st) ==
    /\ \A f \in st.all : flags[f]
    /\ st.any = {} \/ \E f \in st.any : flags[f]
    /\ \A f \in st.none : ~flags[f]

\* One call of the helper deploy, as it is kept in helper: the transactions
\* it sent are sent[first + 1 .. last].
HelperCall(st, args, at, flag, returned, last) ==
    [stmt |-> vpc, key |-> st.key, contract |-> st.contract, args |-> args,
     at |-> at, flag |-> flag, returned |-> returned, first |-> Len(sent),
     last |-> last]

\* owner = get_user(...); deployments = json.load(file)
VaultLoad ==
    /\ script # None /\ error = None /\ vpc = 0
    /\ deployments' = file.content
    /\ loaded' = file.content
    /\ vpc' = 1
    /\ UNCHANGED <<deployVars, sent, confirmed, error, script, runNo, env, flags,
                   helper, nextAddr, file>>

\* var, flag = deploy(deployments, contract, args, key)
VaultDeploy(ok) ==
    /\ AtStmt /\ Cur.op = "deploy"
    /\ LET st == Cur
           args == EvalAll(st.args)
           r == deploy(deployments, st.key)
       IN IF ~r.tx
          THEN \* contract.at(deployments[key]), False
               /\ env' = Bind(env, st.var, r.at)
               /\ flags' = Bind(flags, st.flag, r.flag)
               /\ helper' = Append(helper,
                                   HelperCall(st, args, r.at, r.flag, TRUE, Len(sent)))
               /\ vpc' = vpc + 1
               /\ UNCHANGED <<sent, nextAddr, error>>
          ELSE \* contract.deploy(*args), True
               /\ sent' = Append(sent, Ev("deploy", nextAddr, st.contract, args,
                                          "owner", vpc, ok))
               /\ IF ok
                  THEN /\ env' = Bind(env, st.var, nextAddr)
                       /\ flags' = Bind(flags, st.flag, r.flag)
                       /\ helper' = Append(helper,
                                           HelperCall(st, args, nextAddr, r.flag, TRUE,
                                                      Len(sent) + 1))
                       /\ nextAddr' = nextAddr + 1
                       /\ vpc' = vpc + 1
                       /\ error' = error
                  ELSE /\ helper' = Append(helper,
                                           HelperCall(st, args, 0, FALSE, FALSE,
                                                      Len(sent) + 1))
                       /\ error' = "revert"
                       /\ UNCHANGED <<env, flags, nextAddr, vpc>>
    /\ UNCHANGED <<deployVars, confirmed, script, runNo, deployments, loaded, file>>

\* var = Contract.from_abi(name, address, abi)
VaultFromAbi ==
    /\ AtStmt /\ Cur.op = "from_abi"
    /\ IF KeyError(Cur.args)
       THEN error' = "KeyError" /\ UNCHANGED <<env, vpc>>
       ELSE /\ env' = Bind(env, Cur.var, Eval(Cur.args[1]).n)
            /\ vpc' = vpc + 1
            /\ error' = error
    /\ UNCHANGED <<deployVars, sent, confirmed, script, runNo, deployments, loaded,
                   flags, helper, nextAddr, file>>

\* target.func(args..., {'from': owner}), its condition being true
VaultCall(ok) ==
    /\ AtStmt /\ Cur.op = "call" /\ Cond(Cur)
    /\ IF KeyError(Cur.args)
       THEN error' = "KeyError" /\ UNCHANGED <<sent, vpc>>
       ELSE /\ sent' = Append(sent, Ev("transact", env[Cur.target], Cur.func,
                                       EvalAll(Cur.args), "owner", vpc, ok))
            /\ vpc' = IF ok THEN vpc + 1 ELSE vpc
            /\ error' = IF ok THEN error ELSE "revert"
    /\ UNCHANGED <<deployVars, confirmed, script, runNo, deployments, loaded, env,
                   flags, helper, nextAddr, file>>

\* the condition of a call statement being false
VaultSkip ==
    /\ AtStmt /\ Cur.op = "call" /\ ~Cond(Cur)
    /\ vpc' = vpc + 1
    /\ UNCHANGED <<deployVars, sent, confirmed, error, script, runNo, deployments,
                   loaded, env, flags, helper, nextAddr, file>>

\* collateral_data = [CollateralData(deployments['USDC'], ...), ...]
VaultRead ==
    /\ AtStmt /\ Cur.op = "read"
    /\ IF KeyError(Cur.args)
       THEN error' = "KeyError" /\ vpc' = vpc
       ELSE error' = error /\ vpc' = vpc + 1
    /\ UNCHANGED <<deployVars, sent, confirmed, script, runNo, deployments, loaded,
                   env, flags, helper, nextAddr, file>>

\* data = {**data, ...}; deployments = {**deployments, **data}; json.dump
Merged ==
    LET d == DataOf(script)
    IN [k \in DOMAIN deployments \cup DOMAIN d |->
            IF k \in DOMAIN d THEN env[d[k]] ELSE deployments[k]]

VaultWrite ==
    /\ AtStmt /\ Cur.op = "write"
    /\ deployments' = Merged
    /\ file' = [written |-> TRUE, content |-> Merged]
    /\ vpc' = vpc + 1
    /\ UNCHANGED <<deployVars, sent, confirmed, error, script, runNo, loaded, env,
                   flags, helper, nextAddr>>

\* main has returned.
Completed == script # None /\ error = None /\ vpc = Len(Program(script)) + 1

\* The operator starts the script again, on the file it wrote.
VaultRerun ==
    /\ Completed /\ runNo < MaxRuns
    /\ runNo' = runNo + 1
    /\ vpc' = 0
    /\ deployments' = EmptyMap
    /\ loaded' = EmptyMap
    /\ env' = EmptyMap
    /\ flags' = EmptyMap
    /\ helper' = <<>>
    /\ sent' = <<>>
    /\ file' = [written |-> FALSE, content |-> file.content]
    /\ UNCHANGED <<deployVars, confirmed, error, script, nextAddr>>

(***************************************************************************)
(* Part II: specification                                                  *)
(***************************************************************************)

\* deploy_and_upgrade.py is not running.
InitDeployIdle ==
    /\ pc = "none"
    /\ runs = 0
    /\ forest = [parent |-> <<>>, kind |-> <<>>, transact |-> <<>>]
    /\ steps = [e \in Entries |-> <<>>]
    /\ op = None
    /\ config_name = None
    /\ stack = <<>>
    /\ stepIdx = 1
    /\ tx_list = <<>>
    /\ proxy_admin = None
    /\ admin = None
    /\ answer = None
    /\ data = None
    /\ begun = <<>>
    /\ saved = NoArtifact

InitVaultRun ==
    /\ InitDeployIdle
    /\ sent = <<>>
    /\ confirmed = FALSE
    /\ error = None
    /\ script \in Scripts
    /\ vpc = 0
    /\ runNo = 1
    /\ deployments = EmptyMap
    /\ loaded = EmptyMap
    /\ env = EmptyMap
    /\ flags = EmptyMap
    /\ helper = <<>>
    /\ nextAddr = 101
    /\ file \in [written : {FALSE}, content : Artifacts]

NextVault ==
    \/ VaultLoad
    \/ \E ok \in BOOLEAN : VaultDeploy(ok)
    \/ VaultFromAbi
    \/ \E ok \in BOOLEAN : VaultCall(ok)
    \/ VaultSkip
    \/ VaultRead
    \/ VaultWrite
    \/ VaultRerun

SpecVault == InitVaultRun /\ [][NextVault]_vars

(***************************************************************************)
(* Part II: properties                                                     *)
(***************************************************************************)

\* C4: an entry point that sends transactions has sent no deployment and no
\* transaction unless the operator confirmed first.
C4_ConfirmationBeforeFirstTransaction ==
    (script \in Scripts /\ sent # <<>>) => confirmed

\* C5: a call of the helper deploy with a key of the loaded artifact sends
\* no deployment and returns the contract at the recorded address with the
\* flag False; a call with a key the loaded artifact lacks makes exactly one
\* deployment, of the contract and with the args it was given, and returns
\* the deployed contract with the flag True; and the script deploys nothing
\* but through such a call.
C5_HelperDeploysOnlyAbsentKeys ==
    /\ \A i \in 1..Len(helper) :
          LET h == helper[i]
          IN IF h.key \in DOMAIN loaded
             THEN /\ h.last = h.first
                  /\ h.returned
                  /\ h.at = loaded[h.key]
                  /\ ~h.flag
             ELSE /\ h.last = h.first + 1
                  /\ sent[h.last].kind = "deploy"
                  /\ sent[h.last].func = h.contract
                  /\ sent[h.last].args = h.args
                  /\ h.returned = sent[h.last].ok
                  /\ h.returned => (h.flag /\ h.at = sent[h.last].on)
    /\ \A j \in 1..Len(sent) :
          sent[j].kind = "deploy" =>
              \E i \in 1..Len(helper) :
                  helper[i].last = j /\ helper[i].key \notin DOMAIN loaded

\* One run has looked a recorded contract up and has deployed a missing one.
C5_Witness ==
    \E i, j \in 1..Len(helper) :
        /\ helper[i].key \in DOMAIN loaded
        /\ helper[j].key \notin DOMAIN loaded
        /\ helper[j].returned

\* The keys under which a script looks contracts up or records them.
ContractKeys(s) ==
    {Program(s)[i].key : i \in {j \in 1..Len(Program(s)) : Program(s)[j].op = "deploy"}}
        \cup DOMAIN DataOf(s)

\* C6: the artifact main has written holds every key of the loaded artifact,
\* holds every contract the run deployed or looked up under its key with the
\* address the run used, and holds under every contract key the loaded
\* artifact recorded the address recorded there.
C6_ArtifactRecordsEveryContract ==
    file.written =>
        /\ \A k \in DOMAIN loaded : k \in DOMAIN file.content
        /\ \A i \in 1..Len(helper) :
              /\ helper[i].key \in DOMAIN file.content
              /\ file.content[helper[i].key] = helper[i].at
        /\ \A k \in DOMAIN loaded \cap ContractKeys(script) :
              file.content[k] = loaded[k]

\* C7: a run of main on the artifact a completed run of it wrote deploys no
\* contract.
C7_RerunDeploysNothing ==
    runNo > 1 => \A j \in 1..Len(sent) : sent[j].kind # "deploy"

\* The setters of the vault and the key of the plugin each one installs.
VaultSetters ==
    { [func |-> "updateCollateralManager", key |-> "collateral_manager"],
      [func |-> "updateFeeVault", key |-> "spa_buyback"],
      [func |-> "updateOracle", key |-> "master_price_oracle"],
      [func |-> "updateFeeCalculator", key |-> "fee_calculator"],
      [func |-> "updateRebaseManager", key |-> "rebase_manager"],
      [func |-> "updateYieldReceiver", key |-> "yield_reserve"] }

\* The transactions sent that call func on the contract at address on.
CallsTo(on, func) ==
    {i \in 1..Len(sent) :
        sent[i].kind = "transact" /\ sent[i].on = on /\ sent[i].func = func}

\* The collaterals a script adds to a new collateral manager.
CollateralsOf(s) ==
    IF s = "deploy_vault" THEN {"USDC", "USDCe", "DAI", "USDT", "FRAX", "LUSD"}
    ELSE {"USDC", "DAI", "USDT"}

\* C22: when main has completed, each setter of the vault has been called
\* once, with the address of the plugin this run uses, if the plugin or the
\* vault was missing from the loaded artifact (and so deployed in this run),
\* and not at all if both were recorded; and every collateral has been added
\* to the collateral manager once if the collateral manager was missing from
\* the loaded artifact, and none otherwise.
C22_SettersFollowNewDeployments ==
    Completed =>
        /\ \A s \in VaultSetters :
              LET calls == CallsTo(file.content["vault"], s.func)
              IN IF s.key \notin DOMAIN loaded \/ "vault" \notin DOMAIN loaded
                 THEN /\ Cardinality(calls) = 1
                      /\ \A i \in calls :
                            sent[i].args = <<V("addr", file.content[s.key])>>
                 ELSE calls = {}
        /\ LET adds == CallsTo(file.content["collateral_manager"], "addCollateral")
           IN IF "collateral_manager" \notin DOMAIN loaded
              THEN /\ Cardinality(adds) = Cardinality(CollateralsOf(script))
                   /\ \A c \in CollateralsOf(script) :
                         \E i \in adds : sent[i].args[1] = V("addr", file.content[c])
              ELSE adds = {}

\* A run that found the vault but no collateral manager has completed: it
\* called updateCollateralManager and no other setter.
C22_Witness ==
    /\ Completed
    /\ "vault" \in DOMAIN loaded
    /\ "collateral_manager" \notin DOMAIN loaded
    /\ "fee_calculator" \in DOMAIN loaded
    /\ CallsTo(file.content["vault"], "updateCollateralManager") # {}
    /\ CallsTo(file.content["vault"], "updateFeeCalculator") = {}

\* The references between the contracts of deploy_vault.main: holder keeps the
\* address of target, given to its constructor as argument number pos (0: not a
\* constructor argument) and replaced by a call of holder.setter (None: the
\* script calls no setter for it).
Wires ==
    { [holder |-> "rebase_manager", target |-> "dripper", pos |-> 2,
       setter |-> "updateDripper"],
      [holder |-> "yield_reserve", target |-> "dripper", pos |-> 4, setter |-> None],
      [holder |-> "collateral_manager", target |-> "vault", pos |-> 1,
       setter |-> None],
      [holder |-> "dripper", target |-> "vault", pos |-> 1, setter |-> None],
      [holder |-> "fee_calculator", target |-> "collateral_manager", pos |-> 1,
       setter |-> None],
      [holder |-> "yield_reserve", target |-> "spa_buyback", pos |-> 1,
       setter |-> None],
      [holder |-> "yield_reserve", target |-> "master_price_oracle", pos |-> 3,
       setter |-> None] }
    \cup { [holder |-> "vault", target |-> s.key, pos |-> 0, setter |-> s.func] :
             s \in VaultSetters }

\* The address of w.target that w.holder keeps after the transactions of this
\* run: the argument of the last successful constructor or setter call on the
\* holder; without one, a holder found in the artifact still keeps what it had
\* before the run, which is the recorded target if both were recorded (the
\* pre-deployed contracts are wired to each other) and an instance unknown to
\* this run (address 0) if the target was not recorded.
Refers(w) ==
    LET at == file.content[w.holder]
        evs == {i \in 1..Len(sent) :
                  /\ sent[i].ok
                  /\ sent[i].on = at
                  /\ \/ sent[i].kind = "deploy" /\ w.pos > 0
                     \/ sent[i].kind = "transact" /\ sent[i].func = w.setter}
        last == CHOOSE i \in evs : \A j \in evs : j <= i
    IN IF evs = {}
       THEN IF w.target \in DOMAIN loaded THEN V("addr", loaded[w.target])
            ELSE V("addr", 0)
       ELSE IF sent[last].kind = "deploy" THEN sent[last].args[w.pos]
            ELSE sent[last].args[1]

\* C23: when deploy_vault.main has completed, whatever contract keys the loaded
\* artifact held, every contract refers to the instances the written artifact
\* records: rebase manager and yield reserve to the dripper, collateral manager
\* and dripper to the vault, fee calculator to the collateral manager, yield
\* reserve to spa_buyback and the oracle, and the vault to each of its plugins.
C23_WiringMatchesArtifact ==
    (script = "deploy_vault" /\ Completed) =>
        \A w \in Wires : Refers(w) = V("addr", file.content[w.target])

(***************************************************************************)
(* Part III.  deploy_oracles.py, preset.py and collateral_management.py    *)
(*                                                                         *)
(* `brownie run <script>` imports the module, which executes its           *)
(* module-level statements, and then calls main.  The statements are kept  *)
(* as data, as in Part II, and are executed by the actions below over the  *)
(* variables script, vpc, env (the names bound so far), loaded (data),     *)
(* nextAddr, sent, error and file.                                         *)
(***************************************************************************)

\* Further operands: data[key], an address written in the script, and the
\* value a read-only call returned to a local variable.
Dt(key) == [src |-> "data", name |-> key]
Lt(a) == [src |-> "literal", name |-> a]
G(name) == [src |-> "value", name |-> name]

MStmt(o, line, var, contract, target, func, args, from, names) ==
    [op |-> o, line |-> line, var |-> var, contract |-> contract,
     target |-> target, func |-> func, args |-> args, from |-> from,
     names |-> names]

\* with open(DEPLOYMENT_ARTIFACTS) as file: data = json.load(file)
Open(line) == MStmt("open", line, None, None, None, None, <<>>, None, {})

\* var = ERC20.at(ref) or var = Contract.from_abi(name, ref, abi)
At(line, var, ref) == MStmt("at", line, var, None, None, None, <<ref>>, None, {})

\* var = contract.deploy(args..., {"from": user}, publish_source=PUBLISH_SRC)
New(line, var, contract, args) ==
    MStmt("new", line, var, contract, None, None, args, "user", {})

\* target.func(args..., {'from': from}), a transaction
Tx(line, target, func, args, from) ==
    MStmt("tx", line, None, None, target, func, args, from, {})

\* var = target.func(args...), a read-only call
Get(line, var, target, func, args) ==
    MStmt("get", line, var, None, target, func, args, None, {})

\* from module import names
Imp(line, names) == MStmt("import", line, None, None, None, None, <<>>, None, names)

\* var = <expression over names>, or def var(...), at module level
Def(line, var, names) == MStmt("def", line, var, None, None, None, <<>>, None, names)

\* master_price_oracle.updateTokenPriceFeed(token, oracle, calldata); without
\* a 'from', brownie sends from the account that deployed the contract.
Feed(line, token, oracle, calldata) ==
    Tx(line, "master_price_oracle", "updateTokenPriceFeed",
       <<K(token), L(oracle), K(calldata)>>, "user")

\* for token in tokens: master_price_oracle.getPrice(token)
GetPrice(token) == Get(83, None, "master_price_oracle", "getPrice", <<K(token)>>)

\* oracle.transferOwnership(USDS_OWNER_ADDR, {"from": user})
TransferOwnership(line, oracle) ==
    Tx(line, oracle, "transferOwnership", <<K("USDS_OWNER_ADDR")>>, "user")

\* A script that hands the oracles over before the SPA and USDs feeds are
\* registered (a faulty variant, for comparison).
deploy_oracles_m ==
    << New(33, "chainlink_oracle", "ChainlinkOracle", <<K("chainlink_feeds")>>),
       New(36, "master_price_oracle", "MasterPriceOracle", <<>>),
       Feed(38, "USDC_E", "chainlink_oracle", "getTokenPrice(USDC_E)"),
       New(61, "spa_oracle", "SPAOracle",
           <<L("master_price_oracle"), K("USDC_E"), K("10000"), K("600"), K("70")>>),
       TransferOwnership(79, "master_price_oracle"),
       Feed(69, "SPA", "spa_oracle", "getPrice()"),
       GetPrice("SPA"),
       GetPrice("USDS") >>

\* main of deploy_oracles.py
deploy_oracles ==
    << New(33, "chainlink_oracle", "ChainlinkOracle", <<K("chainlink_feeds")>>),
       New(36, "master_price_oracle", "MasterPriceOracle", <<>>),
       Feed(38, "USDC_E", "chainlink_oracle", "getTokenPrice(USDC_E)"),
       Feed(41, "USDC", "chainlink_oracle", "getTokenPrice(USDC)"),
       Feed(44, "DAI", "chainlink_oracle", "getTokenPrice(DAI)"),
       Feed(47, "FRAX", "chainlink_oracle", "getTokenPrice(FRAX)"),
       Feed(50, "USDT", "chainlink_oracle", "getTokenPrice(USDT)"),
       Feed(53, "LUSD", "chainlink_oracle", "getTokenPrice(LUSD)"),
       Feed(57, "ARB", "chainlink_oracle", "getTokenPrice(ARB)"),
       New(61, "spa_oracle", "SPAOracle",
           <<L("master_price_oracle"), K("USDC_E"), K("10000"), K("600"), K("70")>>),
       New(65, "usds_oracle", "USDsOracle",
           <<L("master_price_oracle"), K("USDC_E"), K("500"), K("600")>>),
       Feed(69, "SPA", "spa_oracle", "getPrice()"),
       Feed(72, "USDS", "usds_oracle", "getPrice()"),
       TransferOwnership(76, "chainlink_oracle"),
       TransferOwnership(77, "spa_oracle"),
       TransferOwnership(78, "usds_oracle"),
       TransferOwnership(79, "master_price_oracle"),
       GetPrice("SPA"),
       GetPrice("USDS"),
       GetPrice("USDC_E"),
       GetPrice("USDT"),
       GetPrice("FRAX"),
       GetPrice("DAI"),
       GetPrice("LUSD"),
       GetPrice("ARB") >>

\* MIGRATE = True
MIGRATE == TRUE

\* The addresses written in preset.py.
Literals ==
    <<"USDs_OWNER", "old_vault_addr", "old_vault_impl", "old_aave_impl",
      "old_aave_strategy", "aLusd">>

Address(a) == 200 + (CHOOSE i \in 1..Len(Literals) : Literals[i] = a)

\* main of preset.py up to `if (MIGRATE):`
preset_load ==
    << Open(33),
       At(37, "usdc", Dt("USDC")),
       At(38, "usdc_e", Dt("USDCe")),
       At(39, "dai", Dt("DAI")),
       At(40, "usdt", Dt("USDT")),
       At(41, "spa", Dt("SPA")),
       At(42, "frax", Dt("FRAX")),
       At(43, "arb", Dt("ARB")),
       At(44, "lusd", Dt("LUSD")),
       At(46, "proxy_admin", Dt("proxy_admin")),
       At(47, "usds", Dt("usds")),
       At(49, "chainlink_oracle", Dt("chainlink_oracle")),
       At(52, "master_price_oracle", Dt("master_price_oracle")),
       At(56, "vault", Dt("vault")),
       At(57, "fee_calculator", Dt("fee_calculator")),
       At(60, "collateral_manager", Dt("collateral_manager")),
       At(63, "dripper", Dt("dripper")),
       At(64, "rebase_manager", Dt("rebase_manager")),
       At(67, "spa_buyback", Dt("spa_buyback")),
       At(68, "yield_reserve", Dt("yield_reserve")),
       At(71, "aave_strategy", Dt("aave_strategy")) >>

\* collateral_manager.addCollateralStrategy(token, aave_strategy, 5000, ...)
AddStrategy(line, token) ==
    Tx(line, "collateral_manager", "addCollateralStrategy",
       <<L(token), L("aave_strategy"), K("5000")>>, "owner")

\* old_vault.harvestInterest(old_aave_strategy, token, {'from': USDs_OWNER})
Harvest(line, token) ==
    Tx(line, "old_vault", "harvestInterest",
       <<L("old_aave_strategy"), L(token)>>, "USDs_OWNER")

\* old_aave_strategy.withdrawToVault(token, old_aave_strategy.check(token), ...):
\* the argument is evaluated, by a read-only call, before the transaction.
Withdraw(line, token, check) ==
    << Get(line, "balance", "old_aave_strategy", check, <<L(token)>>),
       Tx(line, "old_aave_strategy", "withdrawToVault",
          <<L(token), G("balance")>>, "USDs_OWNER") >>

\* A migration that harvests after the funds have left the old vault (a faulty
\* variant, for comparison).
preset_migrate_m ==
    << Get(94, "pa_owner", "proxy_admin", "owner", <<>>),
       At(98, "old_aave_strategy", Lt("old_aave_strategy")),
       At(101, "old_vault", Lt("old_vault_addr")),
       Tx(125, "old_vault", "migrateFunds",
          <<K("[usdc, dai, lusd, usdc_e, frax]"), L("vault")>>, "USDs_OWNER"),
       Harvest(106, "usdc_e"),
       Tx(105, "old_vault", "updateBuybackAddr", <<L("yield_reserve")>>,
          "USDs_OWNER"),
       Tx(138, "fee_calculator", "calibrateFeeForAll", <<>>, "owner") >>

\* main of preset.py, the body of `if (MIGRATE):`
preset_migrate ==
    << AddStrategy(84, "usdc"),
       AddStrategy(85, "lusd"),
       AddStrategy(86, "usdc_e"),
       AddStrategy(87, "dai"),
       Get(94, "pa_owner", "proxy_admin", "owner", <<>>),
       At(98, "old_aave_strategy", Lt("old_aave_strategy")),
       Tx(99, "proxy_admin", "upgrade",
          <<Lt("old_vault_addr"), Lt("old_vault_impl")>>, "pa_owner"),
       Tx(100, "proxy_admin", "upgrade",
          <<L("old_aave_strategy"), Lt("old_aave_impl")>>, "pa_owner"),
       At(101, "old_vault", Lt("old_vault_addr")),
       Tx(105, "old_vault", "updateBuybackAddr", <<L("yield_reserve")>>,
          "USDs_OWNER"),
       Harvest(106, "usdc_e"),
       Harvest(107, "lusd"),
       Harvest(108, "dai") >>
    \o Withdraw(112, "usdc", "checkBalance")
    \o Withdraw(113, "dai", "checkBalance")
    \o Withdraw(114, "usdc_e", "checkBalance")
    \o Withdraw(115, "lusd", "checkAvailableBalance")
    \o << At(119, "aLusd", Lt("aLusd")),
          Tx(120, "old_aave_strategy", "withdrawLPForMigration",
             <<L("lusd"), K("2**256 - 1")>>, "USDs_OWNER"),
          Tx(121, "aLusd", "approve", <<L("aave_strategy"), K("1e24")>>,
             "USDs_OWNER"),
          Get(122, "balance", "aLusd", "balanceOf", <<Lt("USDs_OWNER")>>),
          Tx(122, "aave_strategy", "depositLp", <<L("lusd"), G("balance")>>,
             "USDs_OWNER"),
          Tx(125, "old_vault", "migrateFunds",
             <<K("[usdc, dai, lusd, usdc_e, frax]"), L("vault")>>, "USDs_OWNER"),
          Tx(129, "old_vault", "migrateFunds", <<K("[usds]"), Lt("USDs_OWNER")>>,
             "USDs_OWNER"),
          Get(130, "balance", "usds", "balanceOf", <<Lt("USDs_OWNER")>>),
          Tx(130, "usds", "approve", <<L("dripper"), G("balance")>>, "USDs_OWNER"),
          Get(131, "balance", "usds", "balanceOf", <<Lt("USDs_OWNER")>>),
          Tx(131, "dripper", "addUSDs", <<G("balance")>>, "USDs_OWNER"),
          Tx(135, "proxy_admin", "upgrade", <<L("usds"), Dt("usds_impl")>>,
             "pa_owner"),
          Get(136, "usds_owner", "usds", "owner", <<>>),
          Tx(136, "usds", "updateVault", <<L("vault")>>, "usds.owner()"),
          Tx(138, "fee_calculator", "calibrateFeeForAll", <<>>, "owner") >>

\* main of preset.py
preset == preset_load \o (IF MIGRATE THEN preset_migrate ELSE <<>>)

\* The keys preset.main reads from the artifact.
PresetKeys ==
    UNION {{preset[i].args[j].name :
                j \in {x \in 1..Len(preset[i].args) : preset[i].args[x].src = "data"}} :
            i \in 1..Len(preset)}

\* The address recorded under a key; 'aave_strategy' is written by neither
\* script of Part II.
PresetRecorded(k) == IF k \in KeySet THEN Recorded(k) ELSE Len(Keys) + 1

\* The sets of at most n elements of S.
RECURSIVE AtMost(_, _)
AtMost(S, n) ==
    IF n = 0 THEN {{}}
    ELSE AtMost(S, n - 1) \cup {s \cup {k} : s \in AtMost(S, n - 1), k \in S}

\* The artifacts preset.main may find: all its keys but at most MaxDiff.
PresetArtifacts ==
    {[k \in PresetKeys \ s |-> PresetRecorded(k)] : s \in AtMost(PresetKeys, MaxDiff)}

\* The names `from .preset import *` binds: the public module-level names of
\* preset.py.  The contracts main looks up are locals of main.
preset_globals ==
    {"ERC20", "interface", "MasterPriceOracle", "ChainlinkOracle", "AaveStrategy",
     "USDs", "VaultCore", "CollateralManager", "FeeCalculator", "Dripper",
     "RebaseManager", "SPABuyback", "YieldReserve", "ProxyAdmin", "TUP",
     "Contract", "network", "json", "get_user", "eth_utils",
     "DEPLOYMENT_ARTIFACTS", "MIGRATE", "USDs_OWNER", "main"}

\* collaterals = [usdc, usdc_e, usdt, dai, frax, lusd]
collaterals == <<"usdc", "usdc_e", "usdt", "dai", "frax", "lusd">>

\* The dict display of collateral_allocation_data, as written.
collateral_allocation_data ==
    [usdc |-> [aave_strategy |-> 5000, compound_strategy |-> 5000],
     usdc_e |-> [aave_strategy |-> 5000, compound_strategy |-> 5000],
     dai |-> [aave_strategy |-> 10000],
     lusd |-> [aave_strategy |-> 10000],
     usdt |-> [stargate_strategy |-> 7000, aave_strategy |-> 3000],
     frax |-> [stargate_strategy |-> 0, aave_strategy |-> 10000]]

\* The names the dict display evaluates: its keys and the keys of its values.
TableNames ==
    DOMAIN collateral_allocation_data
        \cup UNION {DOMAIN collateral_allocation_data[c] :
                      c \in DOMAIN collateral_allocation_data}

\* The module-level statements of collateral_management.py
collateral_management ==
    << Imp(1, preset_globals),
       Imp(2, {"get_user", "print_dict", "get_tx_info"}),
       Def(8, "ALLOCATION_THRESHOLD", {}),
       Def(9, "collaterals", {collaterals[i] : i \in 1..Len(collaterals)}),
       Def(11, "collateral_allocation_data", TableNames),
       Def(36, "get_vault_stat", {}),
       Def(74, "get_collateral_strategy_stat", {}),
       Def(94, "get_collateral_fee", {}),
       Def(102, "get_collateral_stats", {}),
       Def(108, "allocate_collateral", {}),
       Def(119, "allocate_all", {}),
       Def(124, "get_collaterals_fee", {}),
       Def(133, "calibrate_fee", {}),
       Def(141, "main", {}) >>

ManageScripts == {"deploy_oracles", "preset", "collateral_management"}

ManageProgram(s) ==
    IF s = "deploy_oracles" THEN deploy_oracles
    ELSE IF s = "preset" THEN preset
    ELSE collateral_management

(***************************************************************************)
(* Part III: the statements                                                *)
(***************************************************************************)

AtMStmt ==
    script \in ManageScripts /\ error = None /\ vpc \in 1..Len(ManageProgram(script))

MCur == ManageProgram(script)[vpc]

\* The value of an operand.
MEval(ref) ==
    IF ref.src = "local" THEN V("addr", env[ref.name])
    ELSE IF ref.src = "data" THEN V("addr", loaded[ref.name])
    ELSE IF ref.src = "literal" THEN V("addr", Address(ref.name))
    ELSE IF ref.src = "value" THEN V("ret", env[ref.name])
    ELSE V(ref.name, 0)

MEvalAll(refs) == [i \in 1..Len(refs) |-> MEval(refs[i])]

\* Some operand subscripts data with a key it does not hold.
MKeyError(refs) ==
    \E i \in 1..Len(refs) : refs[i].src = "data" /\ refs[i].name \notin DOMAIN loaded

\* data = json.load(file)
ManageOpen ==
    /\ AtMStmt /\ MCur.op = "open"
    /\ loaded' = file.content
    /\ vpc' = vpc + 1
    /\ UNCHANGED <<deployVars, sent, confirmed, error, script, runNo, deployments,
                   env, flags, helper, nextAddr, file>>

\* var = X.at(address): no transaction
ManageAt ==
    /\ AtMStmt /\ MCur.op = "at"
    /\ IF MKeyError(MCur.args)
       THEN error' = "KeyError" /\ UNCHANGED <<env, vpc>>
       ELSE /\ env' = Bind(env, MCur.var, MEval(MCur.args[1]).n)
            /\ vpc' = vpc + 1
            /\ error' = error
    /\ UNCHANGED <<deployVars, sent, confirmed, script, runNo, deployments, loaded,
                   flags, helper, nextAddr, file>>

\* var = contract.deploy(args, {"from": user})
ManageNew(ok) ==
    /\ AtMStmt /\ MCur.op = "new"
    /\ sent' = Append(sent, Ev("deploy", nextAddr, MCur.contract,
                               MEvalAll(MCur.args), MCur.from, vpc, ok))
    /\ IF ok
       THEN /\ env' = Bind(env, MCur.var, nextAddr)
            /\ nextAddr' = nextAddr + 1
            /\ vpc' = vpc + 1
            /\ error' = error
       ELSE error' = "revert" /\ UNCHANGED <<env, nextAddr, vpc>>
    /\ UNCHANGED <<deployVars, confirmed, script, runNo, deployments, loaded, flags,
                   helper, file>>

\* target.func(args, {'from': from})
ManageTx(ok) ==
    /\ AtMStmt /\ MCur.op = "tx"
    /\ IF MKeyError(MCur.args)
       THEN error' = "KeyError" /\ UNCHANGED <<sent, vpc>>
       ELSE /\ sent' = Append(sent, Ev("transact", env[MCur.target], MCur.func,
                                       MEvalAll(MCur.args), MCur.from, vpc, ok))
            /\ vpc' = IF ok THEN vpc + 1 ELSE vpc
            /\ error' = IF ok THEN error ELSE "revert"
    /\ UNCHANGED <<deployVars, confirmed, script, runNo, deployments, loaded, env,
                   flags, helper, nextAddr, file>>

\* var = target.func(args): the value returned is known by the statement
\* that read it.
ManageGet ==
    /\ AtMStmt /\ MCur.op = "get"
    /\ sent' = Append(sent, Ev("call", env[MCur.target], MCur.func,
                               MEvalAll(MCur.args), None, vpc, TRUE))
    /\ env' = IF MCur.var = None THEN env ELSE Bind(env, MCur.var, vpc)
    /\ vpc' = vpc + 1
    /\ UNCHANGED <<deployVars, confirmed, error, script, runNo, deployments, loaded,
                   flags, helper, nextAddr, file>>

\* A module-level import, assignment or def: the names the right-hand side
\* evaluates must be bound, or NameError is raised.
ManageBind ==
    /\ AtMStmt /\ MCur.op \in {"import", "def"}
    /\ IF MCur.op = "def" /\ ~(MCur.names \subseteq DOMAIN env)
       THEN error' = "NameError" /\ UNCHANGED <<env, vpc>>
       ELSE /\ env' = [n \in DOMAIN env \cup MCur.names \cup
                             (IF MCur.op = "def" THEN {MCur.var} ELSE {}) |-> 0]
            /\ vpc' = vpc + 1
            /\ error' = error
    /\ UNCHANGED <<deployVars, sent, confirmed, script, runNo, deployments, loaded,
                   flags, helper, nextAddr, file>>

\* main has returned (collateral_management: the module is loaded).
ManageCompleted ==
    script \in ManageScripts /\ error = None /\ vpc = Len(ManageProgram(script)) + 1

\* The run is over, with or without an exception.
ManageStopped == script \in ManageScripts /\ (error # None \/ ManageCompleted)

(***************************************************************************)
(* Part III: specification                                                 *)
(***************************************************************************)

InitManage ==
    /\ InitDeployIdle
    /\ sent = <<>>
    /\ confirmed = FALSE
    /\ error = None
    /\ script \in ManageScripts
    /\ vpc = 1
    /\ runNo = 1
    /\ deployments = EmptyMap
    /\ loaded = EmptyMap
    /\ env = EmptyMap
    /\ flags = EmptyMap
    /\ helper = <<>>
    /\ nextAddr = 101
    /\ file \in [written : {FALSE},
                 content : IF script = "preset" THEN PresetArtifacts ELSE {EmptyMap}]

NextManage ==
    \/ ManageOpen
    \/ ManageAt
    \/ \E ok \in BOOLEAN : ManageNew(ok)
    \/ \E ok \in BOOLEAN : ManageTx(ok)
    \/ ManageGet
    \/ ManageBind

SpecManage == InitManage /\ [][NextManage]_vars

(***************************************************************************)
(* Part III: properties                                                    *)
(***************************************************************************)

\* The global names the body of a function of collateral_management.py reads
\* when it is called.
Reads(f) ==
    IF f = "get_collateral_strategy_stat"
    THEN {"collateral_manager", "collateral_allocation_data"}
    ELSE IF f = "allocate_collateral"
    THEN {"collateral_allocation_data", "get_collateral_strategy_stat",
          "ALLOCATION_THRESHOLD", "vault"}
    ELSE IF f = "allocate_all" THEN {"collaterals", "allocate_collateral"}
    ELSE {}

\* f is defined and every global name its body reads is bound.
Callable(f) == ({f} \cup Reads(f)) \subseteq DOMAIN env

RECURSIVE SumOf(_)
SumOf(f) ==
    IF DOMAIN f = {} THEN 0
    ELSE LET k == CHOOSE x \in DOMAIN f : TRUE
         IN f[k] + SumOf([x \in DOMAIN f \ {k} |-> f[x]])

\* The table as it is written: every collateral of the list has an entry,
\* every cap is in 0..10000 and the caps of a collateral sum to 10000.
TableWellFormed ==
    /\ \A i \in 1..Len(collaterals) :
          collaterals[i] \in DOMAIN collateral_allocation_data
    /\ \A c \in DOMAIN collateral_allocation_data :
          /\ \A s \in DOMAIN collateral_allocation_data[c] :
                collateral_allocation_data[c][s] \in 0..10000
          /\ SumOf(collateral_allocation_data[c]) = 10000

\* C26: once collateral_management has been loaded, the module holds
\* collaterals and collateral_allocation_data, every collateral of the list
\* has an entry in the table, every cap is in 0..10000 and the caps of each
\* collateral sum to 10000, so that allocate_all can look every pair up.
C26_AllocationTableComplete ==
    (script = "collateral_management" /\ ManageStopped) =>
        /\ {"collaterals", "collateral_allocation_data"} \subseteq DOMAIN env
        /\ TableWellFormed
        /\ Callable("allocate_all")

\* The successful transactions sent so far that call func.
TxsOf(func) ==
    {i \in 1..Len(sent) :
        sent[i].kind = "transact" /\ sent[i].ok /\ sent[i].func = func}

\* Transaction i registered a price feed for token on the master price oracle.
FeedAt(i, token) ==
    /\ i \in TxsOf("updateTokenPriceFeed")
    /\ sent[i].on = env["master_price_oracle"]
    /\ sent[i].args[1] = V(token, 0)

FeedTokens == {"USDC_E", "USDC", "DAI", "FRAX", "USDT", "LUSD", "ARB", "SPA", "USDS"}

Oracles == {"chainlink_oracle", "spa_oracle", "usds_oracle", "master_price_oracle"}

\* The owner of the contract in local variable c: the account it was last
\* transferred to, or else the deployer.
OwnerOf(c) ==
    LET ts == {i \in TxsOf("transferOwnership") : sent[i].on = env[c]}
    IN IF ts = {} THEN V("user", 0)
       ELSE sent[CHOOSE i \in ts : \A j \in ts : j <= i].args[1]

\* C27: in deploy_oracles.main every transferOwnership comes after a price
\* feed has been registered on the master price oracle for each of the nine
\* tokens; the SPA and USDs oracles are deployed after the USDC.e feed is
\* registered; when main has returned the four oracles are owned by
\* USDS_OWNER_ADDR; and a price is fetched only for a token with a feed.
C27_FeedsBeforeOwnership ==
    script = "deploy_oracles" =>
        /\ \A i \in 1..Len(sent) :
              sent[i].func = "transferOwnership" =>
                  \A t \in FeedTokens : \E j \in 1..(i - 1) : FeedAt(j, t)
        /\ \A i \in 1..Len(sent) :
              (sent[i].kind = "deploy" /\ sent[i].func \in {"SPAOracle", "USDsOracle"})
                  => \E j \in 1..(i - 1) : FeedAt(j, "USDC_E")
        /\ ManageCompleted =>
              \A o \in Oracles : OwnerOf(o) = V("USDS_OWNER_ADDR", 0)
        /\ \A i \in 1..Len(sent) :
              sent[i].func = "getPrice" =>
                  \E j \in 1..(i - 1) : FeedAt(j, sent[i].args[1].tag)

\* deploy_oracles.main has returned, having fetched the price of ARB last.
C27_Witness ==
    /\ script = "deploy_oracles"
    /\ ManageCompleted
    /\ TxsOf("transferOwnership") # {}
    /\ sent[Len(sent)].func = "getPrice"

\* C28: in preset.main with MIGRATE set, the buyback address of the old vault
\* is set to the yield reserve before any harvestInterest; every
\* harvestInterest precedes every withdrawToVault; the four withdrawals to the
\* old vault are made before old_vault.migrateFunds; USDs is upgraded and
\* pointed at the new vault only after the funds were migrated to it; and
\* nothing is called after calibrateFeeForAll.
C28_MigrationOrder ==
    (script = "preset" /\ MIGRATE) =>
        LET Called(f) == {i \in 1..Len(sent) : sent[i].func = f}
            migrated == {i \in TxsOf("migrateFunds") :
                            sent[i].args[2] = V("addr", env["vault"])}
        IN /\ \A h \in Called("harvestInterest") :
                 \E b \in TxsOf("updateBuybackAddr") :
                     /\ b < h
                     /\ sent[b].on = env["old_vault"]
                     /\ sent[b].args = <<V("addr", env["yield_reserve"])>>
           /\ \A w \in Called("withdrawToVault") :
                 /\ \A h \in Called("harvestInterest") : h < w
                 /\ Cardinality(TxsOf("harvestInterest")) = 3
           /\ \A m \in Called("migrateFunds") :
                 /\ \A w \in Called("withdrawToVault") : w < m
                 /\ Cardinality(TxsOf("withdrawToVault")) = 4
           /\ \A u \in Called("updateVault") \cup
                       {i \in Called("upgrade") :
                           sent[i].args[1] = V("addr", env["usds"])} :
                 \E m \in migrated : m < u
           /\ \A c \in Called("calibrateFeeForAll") : c = Len(sent)

\* preset.main has returned after the whole migration.
C28_Witness ==
    /\ script = "preset"
    /\ ManageCompleted
    /\ TxsOf("calibrateFeeForAll") # {}
    /\ TxsOf("updateVault") # {}

====
